---------------------------- MODULE Spec2Model ----------------------------
(***************************************************************************)
(* The editing state engine of the markdown workspace editor:              *)
(*   - useHistoryManager (src/src/components/FileContextMenu.tsx 406-476), *)
(*   - the MarkdownEditor component's state and handlers                   *)
(*     (src/src/components/MarkdownEditor.tsx), with the tab bar and the   *)
(*     all-files context menu of src/unnamed/part_002 as entry points,     *)
(*   - FrontMatterEditor (src/src/components/FileContextMenu.tsx 152-358). *)
(*                                                                         *)
(* Text.  A JavaScript string is a sequence of lexemes: every character    *)
(* that a regular expression or a split of the code looks at ("-", ":",    *)
(* ".", " ", "!", "[", "]", "(", ")", the newline) is a lexeme of its own, *)
(* and a run of other characters (a word) is one lexeme.  "" is << >>.     *)
(*                                                                         *)
(* React.  A handler runs against the state of the last commit and queues  *)
(* its updates; React commits them in one batch and then runs the effects  *)
(* whose dependencies changed, which queue further updates, until nothing  *)
(* changes.  One action of the model is one handler together with that     *)
(* whole cascade (Settle).  The updates handleFiles queues after its       *)
(* awaits are taken as one batch too (automatic batching of React 18).     *)
(* Adjacent words are kept as the lexemes they were inserted as.           *)
(*                                                                         *)
(* Awaits.  An async handler (handleFiles reading a markdown file, the     *)
(* two handlers of the image-conversion dialog) is an action up to its     *)
(* await and one action for every continuation; other handlers run in      *)
(* between.  awaiting is the suspended handler: what it still has to       *)
(* process and what it closed over.  One async handler is in flight at a   *)
(* time, except under DialogSpec.  steps counts the handlers started, not  *)
(* their continuations.                                                    *)
(*                                                                         *)
(* Specifications.  Spec starts from the empty editor.  WorkSpec starts    *)
(* from a workspace that createNewFile and handleFiles have already set    *)
(* up (the state is computed with the same handlers and Settle) and runs   *)
(* the handlers that need open documents.  RefSpec types whole lines into  *)
(* an imported empty document and imports files that are neither images    *)
(* nor markdown; PasteSpec pastes links into it and undoes.  DialogSpec    *)
(* lets an import start while the conversion dialog is open and a button   *)
(* be clicked while a handler of the dialog is suspended (overlapped holds *)
(* the handlers started beside the first; in the other specifications it   *)
(* stays empty).  QualitySpec runs convertToWebP on files of sizes around  *)
(* its thresholds.  HistSpec and LinSpec drive useHistoryManager on its    *)
(* own.                                                                    *)
(***************************************************************************)
EXTENDS Integers, Sequences, FiniteSets, TLC

VARIABLES
    files,            \* useState<WorkspaceFile[]>   MarkdownEditor.tsx:75
    tabs,             \* useState<Tab[]>             MarkdownEditor.tsx:80
    activeTab,        \* useState<string>            MarkdownEditor.tsx:81
    currentFile,      \* useState<string>            MarkdownEditor.tsx:76
    content,          \* useState<string>, the editor buffer  MarkdownEditor.tsx:74
    missingResources, \* useState<MissingResource[]>  MarkdownEditor.tsx:83
    imageConversionDialog,  \* useState<{isOpen, file, pendingFiles}>  MarkdownEditor.tsx:90
    awaiting,         \* the async handler that is suspended at an await, if any
    overlapped,       \* dialog handlers started while another one was suspended
    frontMatter,      \* FrontMatterEditor's useState<FrontMatterData>, while mounted
    crashed,          \* an updater or handler threw: the component tree is gone
    steps,            \* handlers started so far in this session of the editor
    history,          \* useHistoryManager: useState<HistoryState[]>
    currentIndex,     \* useHistoryManager: useState<number>, 0-based
    historyContent,   \* useHistoryManager: useState<string> (content)
    maxHistorySize,   \* useHistoryManager's parameter
    lastOp,           \* the handler that ran last, what it was given and returned
    linLog,           \* linear run: the current content after 0, 1, ..., N pushes
    linUndos,         \* linear run: k, the undos made after the pushes
    linRedos          \* linear run: j, the redos made after the undos

editorVars == <<files, tabs, activeTab, currentFile, content, missingResources,
               imageConversionDialog, awaiting, overlapped, frontMatter, crashed,
               steps>>
hookVars == <<history, currentIndex, historyContent, maxHistorySize>>
linVars == <<linLog, linUndos, linRedos>>
vars == <<files, tabs, activeTab, currentFile, content, missingResources,
          imageConversionDialog, awaiting, overlapped, frontMatter, crashed, steps,
          history, currentIndex, historyContent, maxHistorySize, lastOp,
          linLog, linUndos, linRedos>>

-----------------------------------------------------------------------------
(* Bounds of the model.                                                    *)

\* the largest maximum size a history manager is constructed with
MaxCap == 3
\* the longest text (in lexemes) pushed onto a history manager on its own
MaxHistText == 2
\* the largest cursor offset recorded by a push onto a history manager on its own
MaxCursor == 1

\* most files in the workspace
MaxFiles == 2
\* most snapshots the editor's history grows to
MaxHistLen == 4
\* most handlers run in one session of the editor
MaxSteps == 3
\* most handlers run on a workspace that is already set up
WorkSteps == 2

\* maxHistorySize: number = 100
DefaultMaxHistorySize == 100

Min(a, b) == IF a < b THEN a ELSE b

\* the text of k typed characters
Text(k) == [i \in 1..k |-> "x"]

-----------------------------------------------------------------------------
(* Strings as sequences of lexemes.                                        *)

NL == "\n"
SP == " "

\* s.indexOf(x) + 1 for a one-lexeme x: 0 when x does not occur
FirstIndex(s, x) ==
    IF \E i \in 1..Len(s) : s[i] = x
    THEN CHOOSE i \in 1..Len(s) : s[i] = x /\ \A j \in 1..(i - 1) : s[j] # x
    ELSE 0

\* s.split(sep) for a one-lexeme sep
Split(s, sep) ==
    LET at == {i \in 1..Len(s) : s[i] = sep}
        \* the index of the k-th sep; 0 before the first, Len(s) + 1 after the last
        nth(k) == IF k = 0 THEN 0
                  ELSE IF k > Cardinality(at) THEN Len(s) + 1
                  ELSE CHOOSE i \in at : Cardinality({j \in at : j <= i}) = k
    IN [k \in 1..(Cardinality(at) + 1) |-> SubSeq(s, nth(k - 1) + 1, nth(k) - 1)]

RECURSIVE Join(_, _)
\* parts.join(sep)
Join(parts, sep) ==
    IF parts = << >> THEN << >>
    ELSE IF Len(parts) = 1 THEN parts[1]
    ELSE LET half == Len(parts) \div 2
         IN Join(SubSeq(parts, 1, half), sep) \o sep
            \o Join(SubSeq(parts, half + 1, Len(parts)), sep)

IsSpace(lx) == lx = SP \/ lx = NL

\* s.trimStart()
TrimStart(s) ==
    IF \E i \in 1..Len(s) : ~IsSpace(s[i])
    THEN SubSeq(s, CHOOSE i \in 1..Len(s) :
                       ~IsSpace(s[i]) /\ \A j \in 1..(i - 1) : IsSpace(s[j]),
                Len(s))
    ELSE << >>

\* s.trimEnd()
TrimEnd(s) ==
    IF \E i \in 1..Len(s) : ~IsSpace(s[i])
    THEN SubSeq(s, 1, CHOOSE i \in 1..Len(s) :
                          ~IsSpace(s[i]) /\ \A j \in (i + 1)..Len(s) : IsSpace(s[j]))
    ELSE << >>

\* s.trim()
Trim(s) == TrimEnd(TrimStart(s))

\* s.includes(sub), lexeme by lexeme
Includes(s, sub) ==
    \E i \in 0..(Len(s) - Len(sub)) : SubSeq(s, i + 1, i + Len(sub)) = sub

\* s.substring(0, start) + inserted + s.substring(end)
Splice(s, start, end, inserted) ==
    SubSeq(s, 1, start) \o inserted \o SubSeq(s, end + 1, Len(s))

\* name.split('.')[0]
BaseName(name) == Split(name, ".")[1]

\* lexemes that stand for one character outside ASCII: the title brackets
\* and the full-width colon
OpenTitle == "{{"
CloseTitle == "}}"
FwColon == "::"

\* the lexeme is one character other than a line terminator
SingleChar(lx) ==
    lx # NL /\ (Len(lx) = 1 \/ lx \in {OpenTitle, CloseTitle, FwColon})

\* one element of a name used as a regular expression against one lexeme:
\* "." matches any single character but a line terminator
PatternLexeme(p, lx) == IF p = "." THEN SingleChar(lx) ELSE p = lx

\* the pattern \]\(NAME\) matches s from position c on
ClosesAt(s, c, name) ==
    /\ c + 2 + Len(name) <= Len(s)
    /\ s[c] = "]"
    /\ s[c + 1] = "("
    /\ \A k \in 1..Len(name) : PatternLexeme(name[k], s[c + 1 + k])
    /\ s[c + 2 + Len(name)] = ")"

\* where a match of !\[.*?\]\(NAME\) that starts at i has its "]": the first
\* closing the lazy .*? reaches without crossing a line end; 0 when none
ImageRefClose(s, i, name) ==
    IF i + 1 <= Len(s) /\ s[i] = "!" /\ s[i + 1] = "["
    THEN LET ok(c) == /\ ClosesAt(s, c, name)
                      /\ \A m \in (i + 2)..(c - 1) : s[m] # NL
         IN IF \E c \in (i + 2)..Len(s) : ok(c)
            THEN CHOOSE c \in (i + 2)..Len(s) :
                     ok(c) /\ \A d \in (i + 2)..(c - 1) : ~ok(d)
            ELSE 0
    ELSE 0

RECURSIVE ReplaceImageRefsFrom(_, _, _, _)
\* the replacement of the matches that start at i or later: the text up to
\* the leftmost match, the replacement, and on from the end of that match
ReplaceImageRefsFrom(s, i, name, replacement) ==
    LET matches(m) == ImageRefClose(s, m, name) # 0
    IN IF \E m \in i..Len(s) : matches(m)
       THEN LET m == CHOOSE m \in i..Len(s) :
                         matches(m) /\ \A k \in i..(m - 1) : ~matches(k)
            IN SubSeq(s, i, m - 1) \o replacement
               \o ReplaceImageRefsFrom(s, ImageRefClose(s, m, name) + 3 + Len(name),
                                       name, replacement)
       ELSE SubSeq(s, i, Len(s))

\* s.replace(new RegExp(`!\\[.*?\\]\\(${name}\\)`, 'g'), replacement)
ReplaceImageRefs(s, name, replacement) == ReplaceImageRefsFrom(s, 1, name, replacement)

\* `![${name.split('.')[0]}](${name})`
ImageText(name) == <<"!", "[">> \o BaseName(name) \o <<"]", "(">> \o name \o <<")">>

\* '![图片已删除]()'
DeletedImageText == <<"!", "[", "deleted", "]", "(", ")">>

\* lines.findIndex(line => line.trim() === 'photos:') + 1: 0 when there is none
PhotosIndex(lines) ==
    IF \E i \in 1..Len(lines) : Trim(lines[i]) = <<"photos", ":">>
    THEN CHOOSE i \in 1..Len(lines) :
             /\ Trim(lines[i]) = <<"photos", ":">>
             /\ \A j \in 1..(i - 1) : Trim(lines[j]) # <<"photos", ":">>
    ELSE 0

\* lines[photosIndex + 1] is read of an array that ends at photosIndex:
\* undefined.includes(...) throws a TypeError
CoverLineThrows(s) ==
    LET lines == Split(s, NL)
    IN PhotosIndex(lines) # 0 /\ PhotosIndex(lines) = Len(lines)

\* the cover-asset step of the rename and delete cascades:
\* if (photosIndex !== -1 && lines[photosIndex + 1].includes(name))
\*     lines[photosIndex + 1] = newLine;   return lines.join('\n')
RewriteCoverLine(s, name, newLine) ==
    LET lines == Split(s, NL)
        p == PhotosIndex(lines)
    IN IF p # 0 /\ p < Len(lines) /\ Includes(lines[p + 1], name)
       THEN Join([lines EXCEPT ![p + 1] = newLine], <<NL>>)
       ELSE s

-----------------------------------------------------------------------------
(* useHistoryManager                                                       *)

\* HistoryState.  timestamp (Date.now()) is read by nothing and is left out;
\* doc is auxiliary: the document the snapshot was recorded for.
HistoryState(c, p, d) == [content |-> c, cursorPosition |-> p, doc |-> d]

\* history[i] of a JavaScript array: << >> stands for undefined
At(h, i) == IF i >= 0 /\ i < Len(h) THEN <<h[i + 1]>> ELSE << >>

\* prev.slice(0, n) for n >= 0
Slice0(h, n) == SubSeq(h, 1, Min(n, Len(h)))

\* the hook's three state cells
HookState(h, i, c) == [history |-> h, currentIndex |-> i, content |-> c]

\* a slip: the index is advanced without being capped at maxHistorySize - 1
AddHistoryUncapped(hook, max, newContent, cursorPos, doc) ==
    IF At(hook.history, hook.currentIndex) # << >>
       /\ At(hook.history, hook.currentIndex)[1].content = newContent
    THEN hook
    ELSE LET pushed == Append(Slice0(hook.history, hook.currentIndex + 1),
                              HistoryState(newContent, cursorPos, doc))
         IN HookState(IF Len(pushed) > max THEN Tail(pushed) ELSE pushed,
                      hook.currentIndex + 1, newContent)

\* a slip: the entries after the current position are kept
AddHistoryNoTruncate(hook, max, newContent, cursorPos, doc) ==
    IF At(hook.history, hook.currentIndex) # << >>
       /\ At(hook.history, hook.currentIndex)[1].content = newContent
    THEN hook
    ELSE LET pushed == Append(hook.history, HistoryState(newContent, cursorPos, doc))
         IN HookState(IF Len(pushed) > max THEN Tail(pushed) ELSE pushed,
                      Min(hook.currentIndex + 1, max - 1), newContent)

\* a slip: no comparison with the content at the current position
AddHistoryNoDedup(hook, max, newContent, cursorPos, doc) ==
    LET pushed == Append(Slice0(hook.history, hook.currentIndex + 1),
                         HistoryState(newContent, cursorPos, doc))
    IN HookState(IF Len(pushed) > max THEN Tail(pushed) ELSE pushed,
                 Min(hook.currentIndex + 1, max - 1), newContent)

\* a slip: the newest entry is dropped when the maximum is exceeded
AddHistoryDropNewest(hook, max, newContent, cursorPos, doc) ==
    IF At(hook.history, hook.currentIndex) # << >>
       /\ At(hook.history, hook.currentIndex)[1].content = newContent
    THEN hook
    ELSE LET pushed == Append(Slice0(hook.history, hook.currentIndex + 1),
                              HistoryState(newContent, cursorPos, doc))
         IN HookState(IF Len(pushed) > max THEN SubSeq(pushed, 1, Len(pushed) - 1)
                                           ELSE pushed,
                      Min(hook.currentIndex + 1, max - 1), newContent)

\* addHistory(newContent, cursorPos), called once against a committed state
AddHistory(hook, max, newContent, cursorPos, doc) ==
    IF At(hook.history, hook.currentIndex) # << >>
       /\ At(hook.history, hook.currentIndex)[1].content = newContent
    THEN hook
    ELSE LET pushed == Append(Slice0(hook.history, hook.currentIndex + 1),
                              HistoryState(newContent, cursorPos, doc))
         IN HookState(IF Len(pushed) > max THEN Tail(pushed) ELSE pushed,
                      Min(hook.currentIndex + 1, max - 1), newContent)

\* what a call of undo or redo leaves and returns; ret = << >> is null
HookResult(hook, ret) == [hook |-> hook, ret |-> ret]

\* a slip: undo also drops the snapshot it leaves
UndoDropping(hook) ==
    IF hook.currentIndex > 0
    THEN LET previousState == At(hook.history, hook.currentIndex - 1)
         IN HookResult(HookState(Slice0(hook.history, hook.currentIndex),
                                 hook.currentIndex - 1,
                                 IF previousState = << >> THEN hook.content
                                 ELSE previousState[1].content),
                       previousState)
    ELSE HookResult(hook, << >>)

\* undo()
Undo(hook) ==
    IF hook.currentIndex > 0
    THEN LET previousState == At(hook.history, hook.currentIndex - 1)
         IN HookResult(HookState(hook.history, hook.currentIndex - 1,
                                 IF previousState = << >> THEN hook.content
                                 ELSE previousState[1].content),
                       previousState)
    ELSE HookResult(hook, << >>)

\* redo()
Redo(hook) ==
    IF hook.currentIndex < Len(hook.history) - 1
    THEN LET nextState == At(hook.history, hook.currentIndex + 1)
         IN HookResult(HookState(hook.history, hook.currentIndex + 1,
                                 IF nextState = << >> THEN hook.content
                                 ELSE nextState[1].content),
                       nextState)
    ELSE HookResult(hook, << >>)

\* canUndo: currentIndex > 0
canUndo == currentIndex > 0
\* canRedo: currentIndex < history.length - 1
canRedo == currentIndex < Len(history) - 1

\* the hook as the variables hold it
Hook == HookState(history, currentIndex, historyContent)

\* useHistoryManager(initialContent, maxHistorySize): the state after construction
HookInit(initialContent, max) ==
    /\ history = <<HistoryState(initialContent, 0, << >>)>>
    /\ currentIndex = 0
    /\ historyContent = initialContent
    /\ maxHistorySize = max

SetHook(hook) ==
    /\ history' = hook.history
    /\ currentIndex' = hook.currentIndex
    /\ historyContent' = hook.content
    /\ UNCHANGED maxHistorySize

\* what lastOp records of a handler of the editor
EditorOp(name, ret) ==
    [name |-> name, arg |-> << >>, ret |-> ret,
     preIndex |-> 0, preLen |-> 0, preContent |-> << >>]

\* what lastOp records of a call
Op(name, arg, ret) ==
    [name |-> name, arg |-> arg, ret |-> ret,
     preIndex |-> currentIndex, preLen |-> Len(history), preContent |-> historyContent]

\* before any handler has run
NoOp ==
    [name |-> "init", arg |-> << >>, ret |-> << >>,
     preIndex |-> 0, preLen |-> 0, preContent |-> << >>]

\* history[currentIndex]?.content, as << >> (undefined) or <<content>>
CurrentContent ==
    IF At(history, currentIndex) = << >> THEN << >>
    ELSE <<At(history, currentIndex)[1].content>>

-----------------------------------------------------------------------------
(* The workspace: files, tabs, the buffer, and the two effects that keep   *)
(* them in step.                                                           *)

\* new Date().toISOString().slice(0, 19).replace('T', ' '), digits as "D"
DateStr == <<"D", "-", "D", "-", "D", SP, "D", ":", "D", ":", "D">>

\* the template of a new document; its two headings are the words "intro"
\* and "download"
generateDefaultTemplate ==
    <<"-", "-", "-", NL, "categories", ":", NL, "-", SP, NL, "date", ":", SP>>
    \o DateStr
    \o <<NL, "photos", ":", NL, "-", SP, NL, "tags", ":", NL, "-", SP, NL,
         "title", ":", SP, NL, "-", "-", "-", NL,
         "#", SP, "intro", NL, NL,
         "<", "!", "-", "-", "more", "-", "-", ">", NL, NL,
         "#", SP, "download", NL, NL>>

\* a WorkspaceFile; an image's content is an ArrayBuffer
WorkspaceFile(name, type, c) == [name |-> name, type |-> type, content |-> c]

Tab(id, c) == [id |-> id, fileName |-> id, content |-> c]

\* files.find(f => f.name === name), as << >> (undefined) or <<file>>
FindFile(fs, name) ==
    IF \E i \in 1..Len(fs) : fs[i].name = name
    THEN <<fs[CHOOSE i \in 1..Len(fs) :
                 fs[i].name = name /\ \A j \in 1..(i - 1) : fs[j].name # name]>>
    ELSE << >>

\* tabs.find(t => t.id === id), as << >> or <<tab>>
FindTab(ts, id) ==
    IF \E i \in 1..Len(ts) : ts[i].id = id
    THEN <<ts[CHOOSE i \in 1..Len(ts) :
                 ts[i].id = id /\ \A j \in 1..(i - 1) : ts[j].id # id]>>
    ELSE << >>

\* files.find(f => f.name === name)?.type
FileType(fs, name) ==
    IF FindFile(fs, name) = << >> THEN "undefined" ELSE FindFile(fs, name)[1].type

\* prev.map(file => file.name === name ? { ...file, content: c } : file)
WriteFile(fs, name, c) ==
    [i \in 1..Len(fs) |->
        IF fs[i].name = name THEN [fs[i] EXCEPT !.content = c] ELSE fs[i]]

\* prev.map(tab => tab.id === id ? { ...tab, content: c } : tab)
WriteTab(ts, id, c) ==
    [i \in 1..Len(ts) |->
        IF ts[i].id = id THEN [ts[i] EXCEPT !.content = c] ELSE ts[i]]

\* a word the patterns take for the start of a network address:
\* (?!http|https|ftp), startsWith('http')
RemoteWords == {"http", "https", "ftp"}

\* where a match of !\[.*?\]\(((?!http|https|ftp)[^)]+)\) that starts at i
\* has its "]": the first "](" on the line that is followed by a local
\* address of at least one character and, somewhere, a ")"; 0 when none
LocalRefClose(s, i) ==
    IF i + 1 <= Len(s) /\ s[i] = "!" /\ s[i + 1] = "["
    THEN LET ok(c) == /\ c + 2 <= Len(s)
                      /\ s[c] = "]"
                      /\ s[c + 1] = "("
                      /\ s[c + 2] \notin RemoteWords \cup {")"}
                      /\ \E k \in (c + 3)..Len(s) : s[k] = ")"
                      /\ \A m \in (i + 2)..(c - 1) : s[m] # NL
         IN IF \E c \in (i + 2)..Len(s) : ok(c)
            THEN CHOOSE c \in (i + 2)..Len(s) :
                     ok(c) /\ \A d \in (i + 2)..(c - 1) : ~ok(d)
            ELSE 0
    ELSE 0

\* where the [^)]+ that starts after the "(" at c + 1 ends: before the first ")"
LocalRefEnd(s, c) ==
    LET ends == {k \in (c + 3)..Len(s) : s[k] = ")"}
    IN CHOOSE k \in ends : \A m \in ends : k <= m

RECURSIVE ImageRefsFrom(_, _, _)
\* match[1] of the matches of imagePattern that start at i or later, closes
\* being LocalRefClose at every position of s
ImageRefsFrom(s, closes, i) ==
    LET starts == {m \in i..Len(s) : closes[m] # 0}
        c == closes[CHOOSE m \in starts : \A k \in starts : m <= k]
        k == LocalRefEnd(s, c)
    IN IF starts = {} THEN << >>
       ELSE <<SubSeq(s, c + 2, k - 1)>> \o ImageRefsFrom(s, closes, k + 1)

\* where the line that holds position e ends
LineEnd(s, e) ==
    LET ends == {k \in e..Len(s) : s[k] = NL}
    IN IF ends # {} THEN (CHOOSE k \in ends : \A m \in ends : k <= m) - 1
       ELSE Len(s)

\* where the capture of a match of photos:\s*\n\s*-\s*([^\s].+) that starts at
\* i begins: after "photos:", white space with a line end in it, "-" and
\* more white space, at a line that has two characters or more; 0 when none
PhotosCapture(s, i) ==
    IF i + 1 <= Len(s) /\ s[i] = "photos" /\ s[i + 1] = ":"
    THEN LET dash(d) == /\ s[d] = "-"
                        /\ \A m \in (i + 2)..(d - 1) : IsSpace(s[m])
                        /\ \E m \in (i + 2)..(d - 1) : s[m] = NL
             start(d, e) == /\ ~IsSpace(s[e])
                            /\ \A m \in (d + 1)..(e - 1) : IsSpace(s[m])
                            /\ LineEnd(s, e) > e \/ ~SingleChar(s[e])
         IN IF \E d \in (i + 3)..Len(s) : dash(d) /\ \E e \in (d + 1)..Len(s) : start(d, e)
            THEN CHOOSE e \in (i + 4)..Len(s) :
                     \E d \in (i + 3)..(e - 1) : dash(d) /\ start(d, e)
            ELSE 0
    ELSE 0

RECURSIVE PhotoRefsFrom(_, _, _)
\* what the loop over photosPattern pushes for the matches that start at i
\* or later, captures being PhotosCapture at every position of s
PhotoRefsFrom(s, captures, i) ==
    LET starts == {m \in i..Len(s) : captures[m] # 0}
        e == captures[CHOOSE m \in starts : \A k \in starts : m <= k]
        capture == SubSeq(s, e, LineEnd(s, e))
    IN IF starts = {} THEN << >>
       ELSE (IF s[e] \in {"http", "https"} THEN << >> ELSE <<Trim(capture)>>)
            \o PhotoRefsFrom(s, captures, e + Len(capture))

\* [...new Set(resources)]
Unique(resources) ==
    LET firsts == {i \in 1..Len(resources) :
                      \A j \in 1..(i - 1) : resources[j] # resources[i]}
    IN [k \in 1..Cardinality(firsts) |->
           resources[CHOOSE i \in firsts : Cardinality({j \in firsts : j < i}) = k - 1]]

parseResourceReferences(markdown) ==
    SelectSeq(Unique(ImageRefsFrom(markdown,
                                   [m \in 1..Len(markdown) |-> LocalRefClose(markdown, m)],
                                   1)
                     \o PhotoRefsFrom(markdown,
                                      [m \in 1..Len(markdown) |-> PhotosCapture(markdown, m)],
                                      1)),
              LAMBDA res : res # << >> /\ res # <<"-">>)

\* the extensions of name.match(/\.(jpg|jpeg|png|gif|svg|webp)$/i)
ImageExtensions == {"jpg", "jpeg", "png", "gif", "svg", "webp"}

MissingResource(name) ==
    [name |-> name,
     type |-> IF Len(name) >= 2 /\ name[Len(name) - 1] = "."
                 /\ name[Len(name)] \in ImageExtensions
              THEN "image" ELSE "other"]

\* references.filter(ref => !existingFiles.has(ref)).map(name => ({name, type}))
MissingOf(references, fs) ==
    LET missing == SelectSeq(references, LAMBDA ref : FindFile(fs, ref) = << >>)
    IN [i \in 1..Len(missing) |-> MissingResource(missing[i])]

\* an uploaded image: a File with its name and MIME type
ImageFile(name, type) == [name |-> name, type |-> type]

\* await file.arrayBuffer(): the bytes of the upload of that name
ArrayBuffer(file) == <<"bytes">> \o file.name

isWebPFile(file) == file.type = "image/webp"

\* originalName.substring(0, originalName.lastIndexOf('.')) + '.webp';
\* without a "." lastIndexOf is -1 and the substring is empty
generateWebPFileName(originalName) ==
    LET dots == {i \in 1..Len(originalName) : originalName[i] = "."}
    IN (IF dots = {} THEN << >>
        ELSE SubSeq(originalName, 1, (CHOOSE i \in dots : \A j \in dots : j <= i) - 1))
       \o <<".", "webp">>

\* how a conversion can end: toBlob gives a blob, toBlob gives null, the
\* image does not load, the canvas gives no 2d context
ConversionOutcomes == {"blob", "noBlob", "loadError", "noContext"}

\* the promise of convertToWebP: <<webpBlob>> when resolved, << >> when rejected
convertToWebP(file, outcome) ==
    IF outcome = "blob" THEN <<(<<"webp">> \o file.name)>> ELSE << >>

\* file.size above which the encoder quality is lowered: 500 * 1024 and
\* 1024 * 1024 bytes
MediumFileSize == 512000
LargeFileSize == 1048576
\* the qualities of convertToWebP, in hundredths: 0.85, 0.8, 0.75
DefaultQuality == 85
MediumFileQuality == 80
LargeFileQuality == 75

\* let quality = 0.85; if (file.size > 1024 * 1024) quality = 0.75;
\* else if (file.size > 500 * 1024) quality = 0.8
QualityBySize(size) ==
    IF size > LargeFileSize THEN LargeFileQuality
    ELSE IF size > MediumFileSize THEN MediumFileQuality
    ELSE DefaultQuality

\* what a handler of the load event settles the promise with: << >> when it
\* rejects, else <<{ webpBlob, quality }>>; encodedAt is auxiliary, the
\* quality handed to canvas.toBlob
Encoded(file, outcome, used, reported) ==
    IF outcome = "blob"
    THEN <<[webpBlob |-> convertToWebP(file, outcome)[1], quality |-> reported,
            encodedAt |-> used]>>
    ELSE << >>

\* the function assigned to img.onload first
onloadBySize(file, outcome) ==
    Encoded(file, outcome, QualityBySize(file.size), QualityBySize(file.size))

\* the function assigned to img.onload after img.src is set
onloadDefault(file, outcome) == Encoded(file, outcome, DefaultQuality, DefaultQuality)

\* the promise of convertToWebP with the quality: both assignments to
\* img.onload run before the executor returns and the load event is
\* dispatched later, so the handler that runs is the one assigned last
convertToWebPQuality(file, outcome) ==
    IF outcome = "loadError" THEN << >> ELSE onloadDefault(file, outcome)

\* processImageFile without the fallback of its catch block
processImageFileNoFallback(file, shouldConvertToWebP, outcome) ==
    IF shouldConvertToWebP /\ ~isWebPFile(file)
    THEN WorkspaceFile(generateWebPFileName(file.name), "image",
                       IF outcome = "blob" THEN <<"webp">> \o file.name ELSE << >>)
    ELSE WorkspaceFile(file.name, "image", ArrayBuffer(file))

processImageFile(file, shouldConvertToWebP, outcome) ==
    IF shouldConvertToWebP /\ ~isWebPFile(file) /\ convertToWebP(file, outcome) # << >>
    THEN WorkspaceFile(generateWebPFileName(file.name), "image",
                       convertToWebP(file, outcome)[1])
    ELSE WorkspaceFile(file.name, "image", ArrayBuffer(file))

\* { isOpen: false, file: null, pendingFiles: [] }
DialogClosed == [isOpen |-> FALSE, file |-> << >>, pendingFiles |-> << >>]

\* no handler is suspended; otherwise: which handler ("confirm", "cancel",
\* "read"), the files it still has to process, the files it closed over
NotAwaiting == [kind |-> "none", queue |-> << >>, files |-> << >>]

\* the state of one render of MarkdownEditor
Render(fs, ts, at, cf, c, hook, missing) ==
    [files |-> fs, tabs |-> ts, activeTab |-> at, currentFile |-> cf,
     content |-> c, hook |-> hook, missingResources |-> missing]

\* what a handler leaves behind: the state of the next render, whether it
\* called setTabs (every call makes a new array), whether a state updater
\* threw while React rendered
Outcome(st, tabsSet) == [st |-> st, tabsSet |-> tabsSet, threw |-> FALSE]
Thrown(st) == [st |-> st, tabsSet |-> FALSE, threw |-> TRUE]

\* useEffect(..., [content, currentFile]): the files this render's run of
\* the effect leaves
WriteThroughEffect(prev, cur) ==
    IF cur.content = prev.content /\ cur.currentFile = prev.currentFile
    THEN cur.files
    ELSE IF cur.currentFile = << >> THEN cur.files
    ELSE IF FindFile(cur.files, cur.currentFile) # << >>
            /\ FindFile(cur.files, cur.currentFile)[1].content = cur.content
    THEN cur.files
    ELSE WriteFile(cur.files, cur.currentFile, cur.content)

\* useEffect(..., [content, currentFile]): the missing resources this
\* render's run of the effect leaves
MissingEffect(prev, cur) ==
    IF cur.content = prev.content /\ cur.currentFile = prev.currentFile
    THEN cur.missingResources
    ELSE IF cur.currentFile = << >> THEN cur.missingResources
    ELSE MissingOf(parseResourceReferences(cur.content), cur.files)

\* useEffect(..., [activeTab, tabs]) ran and found the active tab
ActiveTabEffectRuns(prev, cur, tabsSet) ==
    /\ cur.activeTab # prev.activeTab \/ tabsSet
    /\ cur.activeTab # << >>
    /\ FindTab(cur.tabs, cur.activeTab) # << >>

\* the render after the effects of render cur, prev being the render before
Effects(prev, cur, tabsSet) ==
    LET runs == ActiveTabEffectRuns(prev, cur, tabsSet)
        tab == FindTab(cur.tabs, cur.activeTab)[1]
    IN [cur EXCEPT !.files = WriteThroughEffect(prev, cur),
                   !.missingResources = MissingEffect(prev, cur),
                   !.currentFile = IF runs THEN tab.fileName ELSE @,
                   !.content = IF runs THEN tab.content ELSE @,
                   !.hook = IF runs
                            THEN AddHistory(@, DefaultMaxHistorySize, tab.content, 0,
                                            cur.activeTab)
                            ELSE @]

-----------------------------------------------------------------------------
(* FrontMatterEditor                                                       *)

FrontMatterData(mounted, categories, date, photos, tagList, title) ==
    [mounted |-> mounted, categories |-> categories, date |-> date,
     photos |-> photos, tags |-> tagList, title |-> title]

\* no FrontMatterEditor is rendered
Unmounted == FrontMatterData(FALSE, << >>, << >>, << >>, << >>, << >>)

\* useState of a FrontMatterEditor that has just mounted
FrontMatterInitial == FrontMatterData(TRUE, << >>, DateStr, << >>, << >>, << >>)

\* where the lazy [\s\S]*? of /^---\n([\s\S]*?)\n---/ ends: the index of the
\* last lexeme before the first "\n---" at or after the opening line; -1 when
\* the expression does not match
FrontMatterEnd(s) ==
    LET closes(e) == /\ e + 4 <= Len(s)
                     /\ s[e + 1] = NL
                     /\ s[e + 2] = "-" /\ s[e + 3] = "-" /\ s[e + 4] = "-"
    IN IF /\ Len(s) >= 4
          /\ SubSeq(s, 1, 4) = <<"-", "-", "-", NL>>
          /\ \E e \in 4..Len(s) : closes(e)
       THEN CHOOSE e \in 4..Len(s) : closes(e) /\ \A d \in 4..(e - 1) : ~closes(d)
       ELSE -1

\* content.replace(/^---\n[\s\S]*?\n---\n/, '')
MainContent(s) ==
    LET closes(e) == /\ e + 5 <= Len(s)
                     /\ s[e + 1] = NL
                     /\ s[e + 2] = "-" /\ s[e + 3] = "-" /\ s[e + 4] = "-"
                     /\ s[e + 5] = NL
    IN IF /\ Len(s) >= 4
          /\ SubSeq(s, 1, 4) = <<"-", "-", "-", NL>>
          /\ \E e \in 4..Len(s) : closes(e)
       THEN LET e == CHOOSE e \in 4..Len(s) :
                         closes(e) /\ \A d \in 4..(e - 1) : ~closes(d)
            IN SubSeq(s, e + 6, Len(s))
       ELSE s

\* arr.map(s => s.trim())
TrimAll(parts) == [i \in 1..Len(parts) |-> Trim(parts[i])]

\* values.join(':').split('-').filter(v => v.trim()).map(v => v.trim())
ListValue(values) ==
    TrimAll(SelectSeq(Split(Join(values, <<":">>), "-"), LAMBDA v : Trim(v) # << >>))

\* line.split(':').map(s => s.trim())
KeyAndValues(line) == TrimAll(Split(line, ":"))

\* what yaml.split('\n').forEach(...) leaves in parsed[key]: the values of
\* the last line with that key; << >> when no line has it
LastValues(lines, key) ==
    LET has == {i \in 1..Len(lines) : KeyAndValues(lines[i])[1] = <<key>>}
    IN IF has = {} THEN << >>
       ELSE <<Tail(KeyAndValues(lines[CHOOSE i \in has : \A j \in has : j <= i]))>>

\* setFrontMatter(prev => ({ ...prev, ...parsed }))
ParseLines(prev, lines) ==
    LET list(key, old) == IF LastValues(lines, key) = << >> THEN old
                          ELSE ListValue(LastValues(lines, key)[1])
        text(key, old) == IF LastValues(lines, key) = << >> THEN old
                          ELSE Trim(Join(LastValues(lines, key)[1], <<":">>))
    IN FrontMatterData(TRUE,
                       list("categories", prev.categories),
                       text("date", prev.date),
                       list("photos", prev.photos),
                       list("tags", prev.tags),
                       text("title", prev.title))

\* the mount effect: the form's state after parsing the content it mounted with
ParseFrontMatter(s) ==
    IF FrontMatterEnd(s) = -1 THEN FrontMatterInitial
    ELSE ParseLines(FrontMatterInitial, Split(SubSeq(s, 5, FrontMatterEnd(s)), NL))

\* items.map(c => `- ${c}`).join('\n')
YamlList(items) == Join([i \in 1..Len(items) |-> <<"-", SP>> \o items[i]], <<NL>>)

\* the yaml block of updateContent
Yaml(fm) ==
    <<"-", "-", "-", NL, "categories", ":", NL>> \o YamlList(fm.categories)
    \o <<NL, "date", ":", SP>> \o fm.date
    \o <<NL, "photos", ":", NL>> \o YamlList(fm.photos)
    \o <<NL, "tags", ":", NL>> \o YamlList(fm.tags)
    \o <<NL, "title", ":", SP>> \o fm.title
    \o <<NL, "-", "-", "-", NL>>

\* {currentFile && <FrontMatterEditor .../>}: the form's state after one
\* more render of the editor
Rendered(fm, st) ==
    IF st.currentFile = << >> THEN Unmounted
    ELSE IF fm.mounted THEN fm
    ELSE ParseFrontMatter(st.content)

-----------------------------------------------------------------------------
(* The history manager on its own: any maximum from 1 to MaxCap, any seed, *)
(* and pushes, undos and redos in any order.                               *)

EditorIdle ==
    /\ files = << >>
    /\ tabs = << >>
    /\ activeTab = << >>
    /\ currentFile = << >>
    /\ content = << >>
    /\ missingResources = << >>
    /\ imageConversionDialog = DialogClosed
    /\ awaiting = NotAwaiting
    /\ overlapped = << >>
    /\ frontMatter = Unmounted
    /\ crashed = FALSE
    /\ steps = 0

LinIdle ==
    /\ linLog = << >>
    /\ linUndos = 0
    /\ linRedos = 0

HistInit ==
    /\ EditorIdle
    /\ LinIdle
    /\ \E max \in 1..MaxCap, k \in 0..MaxHistText : HookInit(Text(k), max)
    /\ lastOp = NoOp

HPush(c, p) ==
    /\ SetHook(AddHistory(Hook, maxHistorySize, c, p, << >>))
    /\ lastOp' = Op("push", c, << >>)
    /\ UNCHANGED <<editorVars, linVars>>

HUndo ==
    /\ SetHook(Undo(Hook).hook)
    /\ lastOp' = Op("undo", << >>, Undo(Hook).ret)
    /\ UNCHANGED <<editorVars, linVars>>

HRedo ==
    /\ SetHook(Redo(Hook).hook)
    /\ lastOp' = Op("redo", << >>, Redo(Hook).ret)
    /\ UNCHANGED <<editorVars, linVars>>

HistNext ==
    \/ \E k \in 0..MaxHistText, p \in 0..MaxCursor : HPush(Text(k), p)
    \/ HUndo
    \/ HRedo

HistSpec == HistInit /\ [][HistNext]_vars

-----------------------------------------------------------------------------
(* A linear run of the history manager: N pushes of pairwise distinct      *)
(* contents onto a fresh history, then k <= N undos, then j <= k redos.    *)

LinPushes == Len(linLog) - 1

LinInit ==
    /\ EditorIdle
    /\ \E max \in 1..MaxCap, k \in 0..MaxHistText :
          /\ HookInit(Text(k), max)
          /\ linLog = <<[pushed |-> Text(k), current |-> <<Text(k)>>]>>
    /\ linUndos = 0
    /\ linRedos = 0
    /\ lastOp = NoOp

LPush(c, p) ==
    /\ linUndos = 0
    /\ linRedos = 0
    /\ \A i \in 2..Len(linLog) : linLog[i].pushed # c
    /\ SetHook(AddHistory(Hook, maxHistorySize, c, p, << >>))
    /\ linLog' = Append(linLog, [pushed |-> c, current |-> CurrentContent'])
    /\ lastOp' = Op("push", c, << >>)
    /\ UNCHANGED <<editorVars, linUndos, linRedos>>

LUndo ==
    /\ linRedos = 0
    /\ linUndos < LinPushes
    /\ SetHook(Undo(Hook).hook)
    /\ linUndos' = linUndos + 1
    /\ lastOp' = Op("undo", << >>, Undo(Hook).ret)
    /\ UNCHANGED <<editorVars, linLog, linRedos>>

LRedo ==
    /\ linRedos < linUndos
    /\ SetHook(Redo(Hook).hook)
    /\ linRedos' = linRedos + 1
    /\ lastOp' = Op("redo", << >>, Redo(Hook).ret)
    /\ UNCHANGED <<editorVars, linLog, linUndos>>

LinNext ==
    \/ \E k \in 0..MaxHistText, p \in 0..MaxCursor : LPush(Text(k), p)
    \/ LUndo
    \/ LRedo

LinSpec == LinInit /\ [][LinNext]_vars

-----------------------------------------------------------------------------
(* MarkdownEditor: the handlers, each a function of the render it closes   *)
(* over.                                                                   *)

\* 'index.md', `index-${counter}.md`
IndexName(k) ==
    IF k = 0 THEN <<"index", ".", "md">>
    ELSE <<"index", "-", ToString(k), ".", "md">>

\* createNewFile without the search for a free name
NewFileNameUnchecked(fs) == IndexName(0)

\* the name createNewFile settles on
NewFileName(fs) ==
    IF FindFile(fs, IndexName(0)) = << >> THEN IndexName(0)
    ELSE IndexName(CHOOSE k \in 1..(Len(fs) + 1) :
                       /\ FindFile(fs, IndexName(k)) = << >>
                       /\ \A j \in 1..(k - 1) : FindFile(fs, IndexName(j)) # << >>)

createNewFile(st) ==
    LET fileName == NewFileName(st.files)
        defaultContent == generateDefaultTemplate
    IN Outcome(Render(Append(st.files, WorkspaceFile(fileName, "markdown", defaultContent)),
                      Append(st.tabs, Tab(fileName, defaultContent)),
                      fileName, fileName, defaultContent,
                      AddHistory(st.hook, DefaultMaxHistorySize, defaultContent, 0,
                                 fileName),
                      << >>),
               TRUE)

handleContentChange(st, newContent, cursorPos) ==
    Outcome([st EXCEPT !.content = newContent,
                       !.hook = AddHistory(st.hook, DefaultMaxHistorySize, newContent,
                                           cursorPos, st.activeTab),
                       !.tabs = WriteTab(st.tabs, st.activeTab, newContent)],
            TRUE)

\* the first match of /((?:https?:\/\/|magnet:\?xt=)[^\s]+)/i, << >> when
\* there is none (http and https only)
UrlOf(s) ==
    LET starts(i) == /\ i + 3 <= Len(s)
                     /\ s[i] \in {"http", "https"}
                     /\ s[i + 1] = ":"
                     /\ s[i + 2] = "//"
                     /\ ~IsSpace(s[i + 3])
    IN IF \E i \in 1..Len(s) : starts(i)
       THEN LET i == CHOOSE i \in 1..Len(s) :
                         starts(i) /\ \A j \in 1..(i - 1) : ~starts(j)
                e == CHOOSE e \in (i + 3)..Len(s) :
                         /\ \A m \in i..e : ~IsSpace(s[m])
                         /\ e < Len(s) => IsSpace(s[e + 1])
            IN SubSeq(s, i, e)
       ELSE << >>

\* the words 提取码, 密码, 访问码
CodeWords == {"extractcode", "password", "accesscode"}

\* where [\s:：]* then [a-zA-Z0-9]{4,6} matches after a code word at i: the
\* index of the code, 0 when there is none
CodeAfter(s, i) ==
    LET skips(m) == IsSpace(s[m]) \/ s[m] = ":" \/ s[m] = FwColon
        isCode(m) == /\ \A k \in (i + 1)..(m - 1) : skips(k)
                     /\ ~skips(m)
                     /\ Len(s[m]) \in 4..6
    IN IF s[i] \in CodeWords /\ \E m \in (i + 1)..Len(s) : isCode(m)
       THEN CHOOSE m \in (i + 1)..Len(s) : isCode(m)
       ELSE 0

\* the group of the first match of
\* /(?:提取码|密码|访问码)[\s:：]*([a-zA-Z0-9]{4,6})/i, '' when there is none
ExtractionCodeOf(s) ==
    IF \E i \in 1..Len(s) : CodeAfter(s, i) # 0
    THEN LET i == CHOOSE i \in 1..Len(s) :
                      CodeAfter(s, i) # 0 /\ \A j \in 1..(i - 1) : CodeAfter(s, j) = 0
         IN <<s[CodeAfter(s, i)]>>
    ELSE << >>

\* the group of the first match of /《([^》]+)》|"([^"]+)"|'([^']+)'/, ''
\* when there is none (the first alternative only)
TitleOf(s) ==
    LET closes(i, j) == /\ s[i] = OpenTitle
                        /\ j > i + 1
                        /\ s[j] = CloseTitle
                        /\ \A m \in (i + 1)..(j - 1) : s[m] # CloseTitle
        opens(i) == \E j \in 1..Len(s) : closes(i, j)
    IN IF \E i \in 1..Len(s) : opens(i)
       THEN LET i == CHOOSE i \in 1..Len(s) :
                         opens(i) /\ \A k \in 1..(i - 1) : ~opens(k)
                j == CHOOSE j \in 1..Len(s) : closes(i, j)
            IN SubSeq(s, i + 1, j - 1)
       ELSE << >>

\* formatLinkContent: << >> (null) or <<{ url, extractionCode, title }>>
formatLinkContent(s) ==
    IF UrlOf(s) = << >> THEN << >>
    ELSE <<[url |-> UrlOf(s), extractionCode |-> ExtractionCodeOf(s),
            title |-> TitleOf(s)]>>

\* the linkText of handlePaste; 链接 is the word "link"
LinkText(info) ==
    LET codePart == <<SP, "|", SP, "extractcode", FwColon>> \o info.extractionCode
        target == <<"]", "(">> \o info.url \o <<")">>
    IN IF info.title # << >> /\ info.extractionCode # << >>
       THEN <<"[">> \o info.title \o codePart \o target
       ELSE IF info.title # << >> THEN <<"[">> \o info.title \o target
       ELSE IF info.extractionCode # << >> THEN <<"[", "link">> \o codePart \o target
       ELSE <<"[", "link">> \o target

\* handlePaste without its setTabs
handlePasteNoTab(st, pastedText, start, end, confirmed) ==
    IF Trim(pastedText) = << >> \/ formatLinkContent(pastedText) = << >>
    THEN handleContentChange(st, Splice(st.content, start, end, pastedText),
                             start + Len(pastedText))
    ELSE IF ~confirmed THEN Outcome(st, FALSE)
    ELSE LET linkText == LinkText(formatLinkContent(pastedText)[1])
             newContent == Splice(st.content, start, end, linkText)
         IN Outcome([st EXCEPT !.content = newContent,
                               !.hook = AddHistory(st.hook, DefaultMaxHistorySize,
                                                   newContent, start + Len(linkText),
                                                   st.activeTab)],
                    FALSE)

\* handlePaste, and the textarea's own paste where it does not preventDefault
handlePaste(st, pastedText, start, end, confirmed) ==
    IF Trim(pastedText) = << >> \/ formatLinkContent(pastedText) = << >>
    THEN handleContentChange(st, Splice(st.content, start, end, pastedText),
                             start + Len(pastedText))
    ELSE IF ~confirmed THEN Outcome(st, FALSE)
    ELSE LET linkText == LinkText(formatLinkContent(pastedText)[1])
             newContent == Splice(st.content, start, end, linkText)
         IN Outcome([st EXCEPT !.content = newContent,
                               !.hook = AddHistory(st.hook, DefaultMaxHistorySize,
                                                   newContent, start + Len(linkText),
                                                   st.activeTab),
                               !.tabs = WriteTab(st.tabs, st.activeTab, newContent)],
                    TRUE)

handleUndo(st) ==
    LET r == Undo(st.hook)
    IN IF r.ret = << >> THEN Outcome([st EXCEPT !.hook = r.hook], FALSE)
       ELSE Outcome([st EXCEPT !.hook = r.hook,
                               !.content = r.ret[1].content,
                               !.tabs = WriteTab(st.tabs, st.activeTab, r.ret[1].content)],
                    TRUE)

handleRedo(st) ==
    LET r == Redo(st.hook)
    IN IF r.ret = << >> THEN Outcome([st EXCEPT !.hook = r.hook], FALSE)
       ELSE Outcome([st EXCEPT !.hook = r.hook,
                               !.content = r.ret[1].content,
                               !.tabs = WriteTab(st.tabs, st.activeTab, r.ret[1].content)],
                    TRUE)

\* lines[photosIndex + 1] = newLine: an assignment one past the end appends
SetCoverLine(lines, p, newLine) ==
    IF p = Len(lines) THEN Append(lines, newLine) ELSE [lines EXCEPT ![p + 1] = newLine]

setCoverImage(st, imageName, selectionStart) ==
    LET lines == Split(st.content, NL)
        p == PhotosIndex(lines)
        newContent == Join(SetCoverLine(lines, p, <<"-", SP>> \o imageName), <<NL>>)
    IN IF p = 0 THEN Outcome(st, FALSE)
       ELSE Outcome([st EXCEPT !.content = newContent,
                               !.files = WriteFile(st.files, st.currentFile, newContent),
                               !.hook = AddHistory(st.hook, DefaultMaxHistorySize,
                                                   newContent, selectionStart,
                                                   st.activeTab)],
                    FALSE)

\* handleEditorDrop of a name dragged from the file list
handleEditorDrop(st, fileData, insertAt) ==
    IF FileType(st.files, fileData) = "image"
    THEN LET imageText == ImageText(fileData)
             newContent == Splice(st.content, insertAt, insertAt, imageText)
         IN Outcome([st EXCEPT !.content = newContent,
                               !.hook = AddHistory(st.hook, DefaultMaxHistorySize,
                                                   newContent, insertAt + Len(imageText),
                                                   st.activeTab),
                               !.tabs = WriteTab(st.tabs, st.activeTab, newContent)],
                    TRUE)
    ELSE Outcome(st, FALSE)

\* handleFiles of one markdown file, from the end of its await on: st is
\* the state the updates are applied to, existing the files the handler
\* closed over
importMarkdown(st, name, text, existing) ==
    Outcome([st EXCEPT !.files = Append(st.files, WorkspaceFile(name, "markdown", text)),
                       !.tabs = Append(st.tabs, Tab(name, text)),
                       !.activeTab = name,
                       !.content = text,
                       !.missingResources =
                           MissingOf(parseResourceReferences(text), existing)],
            TRUE)

\* name.endsWith('.md')
EndsWithMd(name) == Len(name) >= 2 /\ SubSeq(name, Len(name) - 1, Len(name)) = <<".", "md">>

\* file.type.startsWith('image/')
isImageFile(file) == file.type \in {"image/png", "image/jpeg", "image/webp"}

\* handleFiles of one file that is no image and whose name does not end
\* with '.md': the loop over nonImageFiles has no branch for it and queues
\* no update
importOther(st, file) == Outcome(st, FALSE)

\* handleFiles of one WebP image
importWebP(st, name) ==
    Outcome([st EXCEPT !.files =
                Append(st.files,
                       processImageFile(ImageFile(name, "image/webp"), FALSE, "blob"))],
            FALSE)

\* one turn of the loop of handleImageConversionConfirm, from the end of
\* its await on
handleImageConversionConfirm(st, file, outcome) ==
    LET processedFile == processImageFile(file, TRUE, outcome)
        existingIndex == {i \in 1..Len(st.files) : st.files[i].name = processedFile.name}
    IN Outcome([st EXCEPT
                   !.files = IF existingIndex # {}
                             THEN [@ EXCEPT ![CHOOSE i \in existingIndex :
                                                 \A j \in existingIndex : i <= j] =
                                               processedFile]
                             ELSE Append(@, processedFile),
                   !.missingResources =
                       SelectSeq(@, LAMBDA resource : resource.name # processedFile.name)],
               FALSE)

\* one turn of the loop of handleImageConversionCancel
handleImageConversionCancel(st, file) ==
    LET processedFile == processImageFile(file, FALSE, "blob")
    IN Outcome([st EXCEPT
                   !.files = Append(@, processedFile),
                   !.missingResources =
                       SelectSeq(@, LAMBDA resource : resource.name # processedFile.name)],
               FALSE)

insertText(st, before, after, start, end) ==
    LET selectedText == SubSeq(st.content, start + 1, end)
        newContent == Splice(st.content, start, end, before \o selectedText \o after)
    IN Outcome([st EXCEPT !.content = newContent,
                          !.hook = AddHistory(st.hook, DefaultMaxHistorySize, newContent,
                                              start, st.activeTab)],
               FALSE)

\* the lexeme of the backtick
Backtick == "'"

\* the arguments each format command gives insertText
formatCommands ==
    [bold          |-> [before |-> <<"**">>, after |-> <<"**">>],
     italic        |-> [before |-> <<"*">>, after |-> <<"*">>],
     strikethrough |-> [before |-> <<"~~">>, after |-> <<"~~">>],
     h1            |-> [before |-> <<"#", SP>>, after |-> << >>],
     h2            |-> [before |-> <<"##", SP>>, after |-> << >>],
     h3            |-> [before |-> <<"###", SP>>, after |-> << >>],
     orderedList   |-> [before |-> <<"1", ".", SP>>, after |-> << >>],
     unorderedList |-> [before |-> <<"-", SP>>, after |-> << >>],
     link          |-> [before |-> <<"[">>, after |-> <<"]", "(", "url", ")">>],
     code          |-> [before |-> <<Backtick>>, after |-> <<Backtick>>],
     more          |-> [before |-> <<NL, "<", "!", "-", "-", "more", "-", "-", ">", NL>>,
                        after |-> << >>]]

switchTab(st, tabId) ==
    IF FindTab(st.tabs, tabId) = << >> THEN Outcome(st, FALSE)
    ELSE LET tab == FindTab(st.tabs, tabId)[1]
         IN Outcome([st EXCEPT !.activeTab = tabId,
                               !.content = tab.content,
                               !.hook = AddHistory(st.hook, DefaultMaxHistorySize,
                                                   tab.content, 0, tabId),
                               !.currentFile = tab.fileName],
                    FALSE)

handleFileSelect(st, fileName) ==
    IF FileType(st.files, fileName) = "markdown" THEN switchTab(st, fileName)
    ELSE Outcome(st, FALSE)

\* closeTab without the reassignment of the active tab
closeTabNoReassign(st, tabId) ==
    Outcome([st EXCEPT !.tabs = SelectSeq(st.tabs, LAMBDA tab : tab.id # tabId)], TRUE)

closeTab(st, tabId) ==
    LET remainingTabs == SelectSeq(st.tabs, LAMBDA tab : tab.id # tabId)
    IN IF st.activeTab # tabId
       THEN Outcome([st EXCEPT !.tabs = remainingTabs], TRUE)
       ELSE IF remainingTabs # << >>
       THEN Outcome([st EXCEPT !.tabs = remainingTabs,
                               !.activeTab = remainingTabs[1].id,
                               !.content = remainingTabs[1].content,
                               !.currentFile = remainingTabs[1].fileName],
                    TRUE)
       ELSE Outcome([st EXCEPT !.tabs = remainingTabs,
                               !.activeTab = << >>,
                               !.content = << >>,
                               !.currentFile = << >>],
                    TRUE)

\* the updater of a cascade throws on one of the files it maps
CascadeThrows(fs, skipped, name, replacement) ==
    \E i \in 1..Len(fs) :
        /\ fs[i].name # skipped
        /\ fs[i].type = "markdown"
        /\ CoverLineThrows(ReplaceImageRefs(fs[i].content, name, replacement))

\* the markdown branch of a cascade's map
CascadeFile(file, name, replacement, newLine) ==
    [file EXCEPT !.content =
        RewriteCoverLine(ReplaceImageRefs(file.content, name, replacement), name, newLine)]

handleDeleteFile(st, fileName) ==
    LET closed == IF st.currentFile = fileName THEN closeTab(st, fileName)
                  ELSE Outcome(st, FALSE)
        kept == SelectSeq(st.files, LAMBDA f : f.name # fileName)
    IN IF FileType(st.files, fileName) # "image"
       THEN Outcome([closed.st EXCEPT !.files = kept], closed.tabsSet)
       ELSE IF CascadeThrows(kept, << >>, fileName, DeletedImageText) THEN Thrown(st)
       ELSE Outcome([closed.st EXCEPT !.files =
                        [i \in 1..Len(kept) |->
                            IF kept[i].type = "markdown"
                            THEN CascadeFile(kept[i], fileName, DeletedImageText,
                                             <<"-", SP>>)
                            ELSE kept[i]]],
                    closed.tabsSet)

\* the snapshots keep naming the document they were recorded for when its
\* file is renamed
RenameOwner(hook, oldName, newName) ==
    [hook EXCEPT !.history =
        [i \in 1..Len(hook.history) |->
            IF hook.history[i].doc = oldName
            THEN [hook.history[i] EXCEPT !.doc = newName]
            ELSE hook.history[i]]]

\* handleRenameFile without its look-up of the new name
handleRenameFileUnchecked(st, oldName, newName) ==
    LET isMarkdown == FileType(st.files, oldName) = "markdown"
        renamed == [i \in 1..Len(st.files) |->
                      IF st.files[i].name = oldName
                      THEN [st.files[i] EXCEPT !.name = newName]
                      ELSE st.files[i]]
    IN Outcome([st EXCEPT !.files = renamed], isMarkdown)

handleRenameFile(st, oldName, newName) ==
    LET isMarkdown == FileType(st.files, oldName) = "markdown"
        renamed == [i \in 1..Len(st.files) |->
                      IF st.files[i].name = oldName
                      THEN [st.files[i] EXCEPT !.name = newName]
                      ELSE IF st.files[i].type = "markdown"
                      THEN CascadeFile(st.files[i], oldName, ImageText(newName),
                                       <<"-", SP>> \o newName)
                      ELSE st.files[i]]
        retabbed == IF isMarkdown
                    THEN [i \in 1..Len(st.tabs) |->
                             IF st.tabs[i].id = oldName
                             THEN [st.tabs[i] EXCEPT !.id = newName, !.fileName = newName]
                             ELSE st.tabs[i]]
                    ELSE st.tabs
        moved == isMarkdown /\ st.currentFile = oldName
        buffer == IF st.currentFile # << >>
                     /\ FileType(st.files, st.currentFile) = "markdown"
                  THEN ReplaceImageRefs(st.content, oldName, ImageText(newName))
                  ELSE st.content
    IN IF FindFile(st.files, newName) # << >> THEN Outcome(st, FALSE)
       ELSE IF CascadeThrows(st.files, oldName, oldName, ImageText(newName)) THEN Thrown(st)
       ELSE Outcome(Render(renamed, retabbed,
                           IF moved THEN newName ELSE st.activeTab,
                           IF moved THEN newName ELSE st.currentFile,
                           buffer,
                           IF isMarkdown THEN RenameOwner(st.hook, oldName, newName)
                           ELSE st.hook,
                           st.missingResources),
                    isMarkdown)

\* the onChange MarkdownEditor gives FrontMatterEditor, called by
\* updateContent with the new front matter
updateContent(st, newFrontMatter, selectionStart) ==
    LET newContent == Yaml(newFrontMatter) \o MainContent(st.content)
    IN Outcome([st EXCEPT !.content = newContent,
                          !.hook = AddHistory(st.hook, DefaultMaxHistorySize, newContent,
                                              selectionStart, st.activeTab),
                          !.files = WriteFile(st.files, st.currentFile, newContent)],
               FALSE)

-----------------------------------------------------------------------------
(* MarkdownEditor: one action for each handler and the renders and effects *)
(* that follow it.                                                         *)

\* the render the handlers close over
Now == Render(files, tabs, activeTab, currentFile, content, Hook, missingResources)

\* the state once nothing is left to run: the handler's batch, then the
\* effects of that render, then the effects of the render they caused
RECURSIVE Renders(_, _, _, _)
\* the renders that follow render cur, prev being the render before it:
\* each is the one before with its effects applied, n of them
Renders(prev, cur, tabsSet, n) ==
    IF n = 0 THEN << >>
    ELSE LET next == Effects(prev, cur, tabsSet)
         IN <<next>> \o Renders(cur, next, FALSE, n - 1)

Settle(prev, out) == Renders(prev, out.st, out.tabsSet, 2)[2]

\* the FrontMatterEditor over the same three renders
SettleForm(fm, prev, out) ==
    LET after == Renders(prev, out.st, out.tabsSet, 2)
    IN Rendered(Rendered(Rendered(fm, out.st), after[1]), after[2])

\* a handler (started == 1) or the continuation of one after an await
\* (started == 0): its updates, the commit and the effects; dialog and async
\* are what it leaves in imageConversionDialog and of itself at an await,
\* others the dialog handlers suspended beside it
CommitHandlers(out, fm, name, ret, dialog, async, others, started) ==
    /\ ~crashed
    /\ steps + started <= MaxSteps
    /\ steps' = steps + started
    /\ lastOp' = EditorOp(name, ret)
    /\ overlapped' = others
    /\ UNCHANGED linVars
    /\ IF out.threw
       THEN /\ crashed' = TRUE
            /\ UNCHANGED <<files, tabs, activeTab, currentFile, content,
                           missingResources, imageConversionDialog, awaiting,
                           frontMatter, hookVars>>
       ELSE \E final \in {Settle(Now, out)} :
               /\ Len(final.files) <= MaxFiles
               /\ Len(final.hook.history) <= MaxHistLen
               /\ files' = final.files
               /\ tabs' = final.tabs
               /\ activeTab' = final.activeTab
               /\ currentFile' = final.currentFile
               /\ content' = final.content
               /\ missingResources' = final.missingResources
               /\ imageConversionDialog' = dialog
               /\ awaiting' = async
               /\ SetHook(final.hook)
               /\ frontMatter' = SettleForm(fm, Now, out)
               /\ crashed' = FALSE

\* a handler or continuation beside which no other dialog handler starts
\* or goes on
CommitWith(out, fm, name, ret, dialog, async, started) ==
    CommitHandlers(out, fm, name, ret, dialog, async, overlapped, started)

\* a handler that runs to its end and leaves the dialog alone
Commit(out, fm, name, ret) ==
    CommitWith(out, fm, name, ret, imageConversionDialog, awaiting, 1)

\* textarea.selectionStart when nothing is selected: at the end, where
\* typing and a value set by React leave the caret; no handler but paste,
\* drop and the formatting commands calls setSelectionRange
Carets(s) == {Len(s)}
\* what can be selected: nothing, or everything
Selections(s) == {<<Len(s), Len(s)>>, <<0, Len(s)>>}

\* what one keystroke makes of the buffer: a character at the caret, the
\* last lexeme deleted, everything deleted
Keystrokes(s) ==
    {[value |-> Splice(s, c, c, <<"x">>), cursor |-> c + 1] : c \in Carets(s)}
    \cup (IF s = << >> THEN {}
          ELSE {[value |-> SubSeq(s, 1, Len(s) - 1), cursor |-> Len(s) - 1],
                [value |-> << >>, cursor |-> 0]})

\* clipboard texts: a bare link, a titled link with a code
Clipboard ==
    {<<"https", ":", "//", "u">>,
     <<OpenTitle, "T", CloseTitle, SP, "https", ":", "//", "u", SP,
       "extractcode", ":", SP, "abcd">>}

\* markdown files offered for import: one whose cover-asset line and whose
\* image link name p.webp, one that ends with the line "photos:"
ImportNames == {<<"a", ".", "md">>}
ImportTexts ==
    {<<"photos", ":", NL, "-", SP, "p", ".", "webp", NL,
       "!", "[", "p", "]", "(", "p", ".", "webp", ")">>,
     <<"photos", ":">>}
\* WebP images offered for import
WebPNames == {<<"p", ".", "webp">>}
\* images of other formats offered for import together
ImageBatches ==
    {<<ImageFile(<<"p", ".", "png">>, "image/png")>>,
     <<ImageFile(<<"p", ".", "png">>, "image/png"),
       ImageFile(<<"p", ".", "jpg">>, "image/jpeg")>>}
\* names typed into a rename
RenameTargets == {<<"q", ".", "webp">>, <<"a", ".", "md">>}
\* the commands drawn from the toolbar: one that wraps, one that prefixes,
\* one whose two sides differ
FormatNames == {"bold", "h1", "link"}
\* tags and titles typed into the form
TagInputs == {<<"g">>}
TitleInputs == {<<"T">>}
\* the two category buttons: 可汉, 无汉
Categories == {<<"catA">>, <<"catB">>}

FileNames == {files[i].name : i \in 1..Len(files)}
ImageNames == {files[i].name : i \in {j \in 1..Len(files) : files[j].type = "image"}}
TabIds == {tabs[i].id : i \in 1..Len(tabs)}

CreateNewFile == Commit(createNewFile(Now), frontMatter, "createNewFile", << >>)

Type ==
    \E k \in Keystrokes(content) :
        Commit(handleContentChange(Now, k.value, k.cursor), frontMatter, "type", << >>)

Paste ==
    \E text \in Clipboard, at \in Carets(content), confirmed \in BOOLEAN :
        Commit(handlePaste(Now, text, at, at, confirmed), frontMatter,
               IF formatLinkContent(text) = << >> THEN "type"
               ELSE IF confirmed THEN "pasteLink" ELSE "pasteDeclined",
               << >>)

DropImage ==
    \E name \in ImageNames, at \in Carets(content) :
        Commit(handleEditorDrop(Now, name, at), frontMatter, "dropImage", << >>)

Format ==
    \E cmd \in FormatNames, sel \in Selections(content) :
        Commit(insertText(Now, formatCommands[cmd].before, formatCommands[cmd].after,
                          sel[1], sel[2]),
               frontMatter, "format", << >>)

SetAsCover ==
    \E name \in ImageNames, at \in Carets(content) :
        Commit(setCoverImage(Now, name, at), frontMatter,
               IF PhotosIndex(Split(content, NL)) = 0 THEN "setCoverNoPhotos"
               ELSE "setCover",
               << >>)

\* a handler of the form: it sets the form's state and calls updateContent
FormChange(newFrontMatter) ==
    /\ frontMatter.mounted
    /\ \E at \in Carets(content) :
           Commit(updateContent(Now, newFrontMatter, at), newFrontMatter, "form", << >>)

CategoryChange ==
    \E category \in Categories :
        FormChange([frontMatter EXCEPT !.categories = <<category>>])

TagAdd ==
    \E newTag \in TagInputs :
        /\ \A i \in 1..Len(frontMatter.tags) : frontMatter.tags[i] # newTag
        /\ FormChange([frontMatter EXCEPT !.tags = Append(frontMatter.tags, newTag)])

TagRemove ==
    \E i \in 1..Len(frontMatter.tags) :
        FormChange([frontMatter EXCEPT !.tags =
            SelectSeq(frontMatter.tags, LAMBDA t : t # frontMatter.tags[i])])

TitleChange ==
    \E title \in TitleInputs \cup {<< >>} :
        FormChange([frontMatter EXCEPT !.title = title])

PhotoAdd ==
    \E photo \in ImageNames :
        /\ \A i \in 1..Len(frontMatter.photos) : frontMatter.photos[i] # photo
        /\ FormChange([frontMatter EXCEPT !.photos = <<photo>>])

EditorUndo ==
    Commit(handleUndo(Now), frontMatter, "undo", Undo(Hook).ret)

EditorRedo ==
    Commit(handleRedo(Now), frontMatter, "redo", Redo(Hook).ret)

\* a click on a tab of the tab bar
TabClick ==
    \E tabId \in TabIds :
        Commit(switchTab(Now, tabId), frontMatter,
               IF tabId = activeTab THEN "reselectTab" ELSE "switchTab", << >>)

\* handleFileClick on a markdown file of the file list
FileClick ==
    \E name \in FileNames :
        /\ FileType(files, name) = "markdown"
        /\ Commit(handleFileSelect(Now, name), frontMatter,
                  IF FindTab(tabs, name) = << >> THEN "selectClosed"
                  ELSE IF name = activeTab THEN "reselectTab" ELSE "switchTab",
                  << >>)

\* the close button of a tab
TabClose ==
    \E tabId \in TabIds :
        Commit(closeTab(Now, tabId), frontMatter,
               IF activeTab = tabId THEN "closeActiveTab" ELSE "closeTab", << >>)

\* Delete of the context menu, confirmed
DeleteFile ==
    \E name \in FileNames :
        Commit(handleDeleteFile(Now, name), frontMatter, "deleteFile", << >>)

RenameFile ==
    \E oldName \in FileNames, newName \in RenameTargets :
        Commit(handleRenameFile(Now, oldName, newName), frontMatter,
               IF FindFile(files, newName) # << >> THEN "renameCollision"
               ELSE "renameFile",
               << >>)

ImportMarkdown ==
    \E name \in ImportNames, text \in ImportTexts :
        Commit(importMarkdown(Now, name, text, files), frontMatter, "importMarkdown",
               << >>)

\* handleFiles of one markdown file up to its await: file.text() is pending
ImportMarkdownStart ==
    \E name \in ImportNames, text \in ImportTexts :
        /\ awaiting = NotAwaiting
        /\ CommitWith(Outcome(Now, FALSE), frontMatter, "readStart", << >>,
                      imageConversionDialog,
                      [kind |-> "read", queue |-> <<[name |-> name, text |-> text]>>,
                       files |-> files],
                      1)

\* file.text() resolves and handleFiles goes on
ImportMarkdownEnd ==
    /\ awaiting.kind = "read"
    /\ CommitWith(importMarkdown(Now, awaiting.queue[1].name, awaiting.queue[1].text,
                                 awaiting.files),
                  frontMatter, "readEnd", << >>, imageConversionDialog, NotAwaiting, 0)

\* handleFiles of images that are not WebP: the dialog opens with them
ImportImages ==
    \E nonWebPImages \in ImageBatches :
        /\ ~imageConversionDialog.isOpen
        /\ CommitWith(Outcome(Now, FALSE), frontMatter, "importImages", << >>,
                      [isOpen |-> TRUE, file |-> <<nonWebPImages[1]>>,
                       pendingFiles |-> nonWebPImages],
                      awaiting, 1)

\* a click on a button of the dialog: the handler reads pendingFiles and
\* suspends at its first await
ConversionClick ==
    \E kind \in {"confirm", "cancel"} :
        /\ imageConversionDialog.isOpen
        /\ awaiting = NotAwaiting
        /\ CommitWith(Outcome(Now, FALSE), frontMatter, kind, << >>,
                      imageConversionDialog,
                      [kind |-> kind, queue |-> imageConversionDialog.pendingFiles,
                       files |-> << >>],
                      1)

\* the await of the conversion handler ends: one turn of its loop, and after
\* the last turn the dialog is reset
ConversionTurn ==
    \E outcome \in ConversionOutcomes :
        /\ awaiting.kind \in {"confirm", "cancel"}
        /\ awaiting.kind = "cancel" => outcome = "blob"
        /\ CommitWith(IF awaiting.kind = "confirm"
                      THEN handleImageConversionConfirm(Now, awaiting.queue[1], outcome)
                      ELSE handleImageConversionCancel(Now, awaiting.queue[1]),
                      frontMatter,
                      IF awaiting.kind = "cancel" THEN "keptOriginal"
                      ELSE IF outcome = "blob" THEN "converted" ELSE "conversionFailed",
                      << >>,
                      IF Len(awaiting.queue) = 1 THEN DialogClosed
                      ELSE imageConversionDialog,
                      IF Len(awaiting.queue) = 1 THEN NotAwaiting
                      ELSE [awaiting EXCEPT !.queue = Tail(@)],
                      0)

ImportWebP ==
    \E name \in WebPNames :
        Commit(importWebP(Now, name), frontMatter, "importWebP", << >>)

Init ==
    /\ EditorIdle
    /\ LinIdle
    /\ HookInit(<< >>, DefaultMaxHistorySize)
    /\ lastOp = NoOp

Next ==
    \/ CreateNewFile
    \/ Type
    \/ Paste
    \/ DropImage
    \/ Format
    \/ SetAsCover
    \/ CategoryChange
    \/ TagAdd
    \/ TagRemove
    \/ TitleChange
    \/ PhotoAdd
    \/ EditorUndo
    \/ EditorRedo
    \/ TabClick
    \/ FileClick
    \/ TabClose
    \/ DeleteFile
    \/ RenameFile
    \/ ImportMarkdown
    \/ ImportMarkdownStart
    \/ ImportMarkdownEnd
    \/ ImportWebP
    \/ ImportImages
    \/ ConversionClick
    \/ ConversionTurn

Spec == Init /\ [][Next]_vars

\* A workspace that handlers have already set up: the render they settle in
\* and the front-matter form over it.
Workspace(st, fm) == [st |-> st, fm |-> fm]

\* the editor before any handler has run
IdleWorkspace ==
    Workspace(Render(<< >>, << >>, << >>, << >>, << >>,
                     HookState(<<HistoryState(<< >>, 0, << >>)>>, 0, << >>), << >>),
              Unmounted)

\* the workspace after one more handler
After(w, out) == Workspace(Settle(w.st, out), SettleForm(w.fm, w.st, out))
AfterNew(w) == After(w, createNewFile(w.st))
AfterWebP(w, name) == After(w, importWebP(w.st, name))
AfterMarkdown(w, name, text) ==
    After(w, importMarkdown(w.st, name, text, w.st.files))

\* an imported document with a front matter of its own: a cover asset, a
\* tag and a title, and an image link to the cover asset
WrittenDocument ==
    <<"-", "-", "-", NL,
      "photos", ":", NL, "-", SP, "p", ".", "webp", NL,
      "tags", ":", NL, "-", SP, "t", NL,
      "title", ":", SP, "U", NL,
      "-", "-", "-", NL,
      "!", "[", "p", "]", "(", "p", ".", "webp", ")">>

\* an imported document that names other files than p.webp: its cover asset
\* is x.p.webp and its image link goes to p-webp
NearDocument ==
    <<"photos", ":", NL, "-", SP, "x", ".", "p", ".", "webp", NL,
      "!", "[", "x", "]", "(", "p", "-", "webp", ")">>

\* two new documents, the second active; an image and an imported document
\* that names it; an image and an imported document that names others
Workspaces ==
    {AfterNew(AfterNew(IdleWorkspace)),
     AfterMarkdown(AfterWebP(IdleWorkspace, <<"p", ".", "webp">>),
                   <<"a", ".", "md">>, WrittenDocument),
     AfterMarkdown(AfterWebP(IdleWorkspace, <<"p", ".", "webp">>),
                   <<"a", ".", "md">>, NearDocument)}

\* the editor with one of these workspaces, WorkSteps handlers to go
WorkInit ==
    \E w \in Workspaces :
        /\ files = w.st.files
        /\ tabs = w.st.tabs
        /\ activeTab = w.st.activeTab
        /\ currentFile = w.st.currentFile
        /\ content = w.st.content
        /\ missingResources = w.st.missingResources
        /\ imageConversionDialog = DialogClosed
        /\ awaiting = NotAwaiting
        /\ overlapped = << >>
        /\ frontMatter = w.fm
        /\ crashed = FALSE
        /\ steps = MaxSteps - WorkSteps
        /\ history = w.st.hook.history
        /\ currentIndex = w.st.hook.currentIndex
        /\ historyContent = w.st.hook.content
        /\ maxHistorySize = DefaultMaxHistorySize
        /\ LinIdle
        /\ lastOp = NoOp

\* the handlers that work on the documents and files that are there
WorkNext ==
    \/ Type
    \/ Paste
    \/ DropImage
    \/ Format
    \/ SetAsCover
    \/ CategoryChange
    \/ TagAdd
    \/ TagRemove
    \/ TitleChange
    \/ PhotoAdd
    \/ EditorUndo
    \/ EditorRedo
    \/ TabClick
    \/ FileClick
    \/ TabClose
    \/ DeleteFile
    \/ RenameFile

WorkSpec == WorkInit /\ [][WorkNext]_vars

\* The reconciler and the import of other files on their own: an empty
\* document a.md is imported, text is typed at its end, a line at a time,
\* and files that are neither images nor markdown are dropped on the editor;
\* useEffect[content,currentFile] reconciles after every line.
RefLines ==
    {<<"!", "[", "a", "]", "(", "pic", ".", "png", ")">>,
     <<"!", "[", "b", "]", "(", "http", ":", "//", "x", ".", "png", ")">>,
     <<"!", "[", "c", "]", "(", "ftp", ":", "//", "x", ".", "png", ")">>,
     <<"photos", ":", NL, "-", SP, "c", ".", "png">>,
     <<"photos", ":", NL, "-", SP, "https", ":", "//", "x", ".", "png">>,
     <<"photos", ":", NL, "-", SP, "ftp", ":", "//", "x", ".", "png">>,
     <<"photos", ":", NL, "-", SP>>,
     <<"tags", ":">>}

RefInit ==
    \E w \in {AfterMarkdown(IdleWorkspace, <<"a", ".", "md">>, << >>)} :
        /\ files = w.st.files
        /\ tabs = w.st.tabs
        /\ activeTab = w.st.activeTab
        /\ currentFile = w.st.currentFile
        /\ content = w.st.content
        /\ missingResources = w.st.missingResources
        /\ imageConversionDialog = DialogClosed
        /\ awaiting = NotAwaiting
        /\ overlapped = << >>
        /\ frontMatter = w.fm
        /\ crashed = FALSE
        /\ steps = 0
        /\ history = w.st.hook.history
        /\ currentIndex = w.st.hook.currentIndex
        /\ historyContent = w.st.hook.content
        /\ maxHistorySize = DefaultMaxHistorySize
        /\ LinIdle
        /\ lastOp = NoOp

\* handleContentChange with a line more at the end of the text
TypeLine ==
    \E line \in RefLines :
        Commit(handleContentChange(Now, content \o line \o <<NL>>,
                                   Len(content) + Len(line) + 1),
               frontMatter, "typeLine", << >>)

\* files offered for import that are neither images nor markdown
OtherFiles == {ImageFile(<<"n", ".", "txt">>, "text/plain")}

\* handleFiles of one such file: it is in nonImageFiles, its name does not
\* end with '.md', and the loop has no other branch
ImportOther ==
    \E file \in OtherFiles :
        /\ ~isImageFile(file)
        /\ ~EndsWithMd(file.name)
        /\ Commit(importOther(Now, file), frontMatter, "importOther", << >>)

RefNext == TypeLine \/ ImportOther

RefSpec == RefInit /\ [][RefNext]_vars

\* Link paste on its own: in the empty imported document, texts with a link
\* are pasted over nothing or over everything, and undone.
LinkClipboard ==
    {<<"https", ":", "//", "u">>,
     <<OpenTitle, "T", CloseTitle, SP, "https", ":", "//", "u">>,
     <<"https", ":", "//", "u", SP, "extractcode", ":", SP, "abcd">>,
     <<OpenTitle, "T", CloseTitle, SP, "https", ":", "//", "u", SP,
       "extractcode", ":", SP, "abcd">>}

PasteLink ==
    \E text \in LinkClipboard, sel \in Selections(content), confirmed \in BOOLEAN :
        Commit(handlePaste(Now, text, sel[1], sel[2], confirmed), frontMatter,
               IF confirmed THEN "pasteLink" ELSE "pasteDeclined", << >>)

PasteNext == PasteLink \/ EditorUndo

PasteSpec == RefInit /\ [][PasteNext]_vars

\* The conversion dialog with nothing to keep imports and clicks apart:
\* handleFiles opens the dialog whether or not it is open already, and the
\* buttons stay clickable while a handler of theirs is suspended.

\* the most dialog handlers suspended beside the first
MaxOverlap == 1

\* handleFiles of images that are not WebP while the dialog is open
ImportImagesAgain ==
    \E nonWebPImages \in ImageBatches :
        /\ imageConversionDialog.isOpen
        /\ CommitWith(Outcome(Now, FALSE), frontMatter, "importImagesAgain", << >>,
                      [isOpen |-> TRUE, file |-> <<nonWebPImages[1]>>,
                       pendingFiles |-> nonWebPImages],
                      awaiting, 1)

\* a click on a button of the dialog while a handler of the dialog is
\* suspended: a second handler reads pendingFiles and suspends
ConversionClickAgain ==
    \E kind \in {"confirm", "cancel"} :
        /\ imageConversionDialog.isOpen
        /\ awaiting.kind \in {"confirm", "cancel"}
        /\ Len(overlapped) < MaxOverlap
        /\ CommitHandlers(Outcome(Now, FALSE), frontMatter,
                          IF kind = "confirm" THEN "confirmAgain" ELSE "cancelAgain",
                          << >>, imageConversionDialog, awaiting,
                          Append(overlapped,
                                 [kind |-> kind,
                                  queue |-> imageConversionDialog.pendingFiles,
                                  files |-> << >>]),
                          1)

\* the await of a handler started beside another ends: one turn of its
\* loop, and after the last turn the dialog is reset
OverlappedTurn ==
    \E outcome \in ConversionOutcomes :
        /\ overlapped # << >>
        /\ overlapped[1].kind = "cancel" => outcome = "blob"
        /\ CommitHandlers(IF overlapped[1].kind = "confirm"
                          THEN handleImageConversionConfirm(Now, overlapped[1].queue[1],
                                                            outcome)
                          ELSE handleImageConversionCancel(Now, overlapped[1].queue[1]),
                          frontMatter,
                          IF overlapped[1].kind = "cancel" THEN "keptOriginalAgain"
                          ELSE IF outcome = "blob" THEN "convertedAgain"
                          ELSE "conversionFailedAgain",
                          << >>,
                          IF Len(overlapped[1].queue) = 1 THEN DialogClosed
                          ELSE imageConversionDialog,
                          awaiting,
                          IF Len(overlapped[1].queue) = 1 THEN Tail(overlapped)
                          ELSE <<[overlapped[1] EXCEPT !.queue = Tail(@)]>>
                               \o Tail(overlapped),
                          0)

DialogNext ==
    \/ ImportImages
    \/ ImportImagesAgain
    \/ ConversionClick
    \/ ConversionClickAgain
    \/ ConversionTurn
    \/ OverlappedTurn

DialogSpec == Init /\ [][DialogNext]_vars

\* convertToWebP on its own, on files of sizes around the two thresholds.

\* how far from a threshold the sizes go, in bytes
MaxSizeDelta == 15

FileSizes ==
    {MediumFileSize + d : d \in (0 - MaxSizeDelta)..MaxSizeDelta}
    \cup {LargeFileSize + d : d \in (0 - MaxSizeDelta)..MaxSizeDelta}

\* convertToWebP(file) of a PNG of some size, until its promise settles
ConvertImage ==
    \E size \in FileSizes, outcome \in ConversionOutcomes :
        /\ ~crashed
        /\ lastOp' = [EditorOp("convertToWebP",
                               convertToWebPQuality([name |-> <<"p", ".", "png">>,
                                                     type |-> "image/png",
                                                     size |-> size],
                                                    outcome))
                        EXCEPT !.arg = <<size>>]
        /\ UNCHANGED <<editorVars, hookVars, linVars>>

QualitySpec == Init /\ [][ConvertImage]_vars

-----------------------------------------------------------------------------
(* Claims about the workspace.                                             *)

\* the handlers that make an edit cycle on the active document
EditCycles ==
    {"type", "pasteLink", "dropImage", "format", "setCover", "form", "undo", "redo"}

\* the handlers that change the active document
DocumentChanges == {"switchTab", "createNewFile", "importMarkdown", "closeActiveTab"}

\* C1 as stated: once an edit cycle on the active document has completed
\* (typing, a confirmed link paste, an image drop, a formatting command,
\* set-as-cover, a change in the front-matter form, undo, redo), the active
\* tab's mirrored content, the content of the file of the same name and the
\* editor buffer are all equal.
C1_WriteThroughAsStated ==
    (/\ ~crashed
     /\ lastOp.name \in EditCycles
     /\ FindTab(tabs, activeTab) # << >>
     /\ FindFile(files, activeTab) # << >>)
    => /\ FindTab(tabs, activeTab)[1].content = content
       /\ FindFile(files, activeTab)[1].content = content

\* C2 as stated: in every settled state each open tab's id names a markdown
\* file that exists in the file store, and activeTab and currentFile are each
\* either empty or the id of an open tab whose file exists.
C2_TabsNameFilesAsStated ==
    ~crashed =>
        /\ \A i \in 1..Len(tabs) : FileType(files, tabs[i].id) = "markdown"
        /\ \A name \in {activeTab, currentFile} :
               \/ name = << >>
               \/ FindTab(tabs, name) # << >> /\ FindFile(files, name) # << >>

\* C3 as stated: right after the active document changes (a tab click or file
\* select, a new document, a markdown import, the reassignment after closing
\* the active tab) the history is exactly one snapshot, holding the content of
\* the newly active document, at position 0, so canUndo and canRedo are false.
C3_HistoryResetAsStated ==
    (~crashed /\ lastOp.name \in DocumentChanges /\ activeTab # << >>)
    => /\ Len(history) = 1
       /\ currentIndex = 0
       /\ history[1].content = content
       /\ ~canUndo
       /\ ~canRedo

\* C4 as stated: histories are not shared across documents: the snapshot an
\* undo or redo writes into the active document's buffer, tab and file was
\* not recorded while a different document was active.
C4_NoSharedHistoryAsStated ==
    (/\ ~crashed
     /\ lastOp.name \in {"undo", "redo"}
     /\ lastOp.ret # << >>
     /\ activeTab # << >>)
    => lastOp.ret[1].doc \in {activeTab, << >>}

-----------------------------------------------------------------------------
(* Claims about the history manager.                                       *)

\* C5 as stated: after N pushes of pairwise distinct contents onto a fresh
\* history, k <= N undos and j <= k redos, the current content is the content
\* that was current after the first N - k + j pushes (the seed for 0).
C5_LinearityAsStated ==
    CurrentContent = linLog[LinPushes - linUndos + linRedos + 1].current

\* C5 amended: the same, for runs in which the first pushed content differs
\* from the seed and N is below the maximum size, so that every push adds an
\* entry and none is evicted.
C5_Linearity ==
    (/\ LinPushes < maxHistorySize
     /\ LinPushes >= 1 => linLog[2].pushed # linLog[1].pushed)
    => CurrentContent = linLog[LinPushes - linUndos + linRedos + 1].current

C5_Witness ==
    /\ LinPushes = 2
    /\ LinPushes < maxHistorySize
    /\ linLog[2].pushed # linLog[1].pushed
    /\ linUndos = 2
    /\ linRedos = 1
    /\ lastOp.name = "redo"
    /\ lastOp.ret # << >>

\* C6: a push of new content while the position is below the last index
\* discards every snapshot after the position: the pushed snapshot is then the
\* last entry and the current one, canRedo is false and redo returns nothing.
C6_PushDiscardsRedoBranch ==
    [][(/\ lastOp'.name = "push"
        /\ currentIndex < Len(history) - 1
        /\ CurrentContent # <<lastOp'.arg>>)
       => /\ Len(history') = currentIndex + 2
          /\ SubSeq(history', 1, currentIndex + 1) = SubSeq(history, 1, currentIndex + 1)
          /\ history'[Len(history')].content = lastOp'.arg
          /\ currentIndex' = Len(history') - 1
          /\ ~canRedo'
          /\ Redo(Hook').ret = << >>]_vars

C6_Witness ==
    /\ lastOp.name = "push"
    /\ lastOp.preIndex < lastOp.preLen - 2
    /\ lastOp.arg # lastOp.preContent
    /\ currentIndex = lastOp.preIndex + 1
    /\ Len(history) = lastOp.preIndex + 2

\* C7: a push whose content equals the content of the snapshot at the current
\* position changes nothing (entries, length, position, redo branch); the
\* same content pushed twice in a row never lengthens the stack.
C7_Dedup ==
    [][/\ (lastOp'.name = "push" /\ CurrentContent = <<lastOp'.arg>>)
          => UNCHANGED <<history, currentIndex, historyContent>>
       /\ (lastOp.name = "push" /\ lastOp'.name = "push" /\ lastOp'.arg = lastOp.arg)
          => Len(history') <= Len(history)]_vars

C7_Witness ==
    /\ lastOp.name = "push"
    /\ lastOp.arg = lastOp.preContent
    /\ canRedo
    /\ currentIndex = lastOp.preIndex
    /\ Len(history) = lastOp.preLen

\* C8 as stated: the stack never exceeds the maximum, and a push made when
\* the stack is full drops exactly the oldest entry, keeps the others in
\* order and leaves the position on the pushed snapshot (read for pushes of
\* new content: C7 covers a push of the current content).
C8_CapAsStated ==
    [][/\ Len(history') <= maxHistorySize'
       /\ (/\ lastOp'.name = "push"
           /\ Len(history) = maxHistorySize
           /\ CurrentContent # <<lastOp'.arg>>)
          => /\ Len(history') = Len(history)
             /\ SubSeq(history', 1, Len(history') - 1) = Tail(history)
             /\ history'[Len(history')].content = lastOp'.arg
             /\ currentIndex' = Len(history') - 1]_vars

\* C8 amended: the stack never exceeds the maximum, and a push of new
\* content made when the stack is full and the position is the last index
\* drops exactly the oldest entry, keeps the others in order and leaves the
\* position on the pushed snapshot.
C8_Cap ==
    /\ [](Len(history) <= maxHistorySize)
    /\ [][(/\ lastOp'.name = "push"
            /\ Len(history) = maxHistorySize
            /\ currentIndex = Len(history) - 1
            /\ CurrentContent # <<lastOp'.arg>>)
           => /\ Len(history') = Len(history)
              /\ SubSeq(history', 1, Len(history') - 1) = Tail(history)
              /\ history'[Len(history')].content = lastOp'.arg
              /\ currentIndex' = Len(history') - 1]_vars

C8_Witness ==
    /\ lastOp.name = "push"
    /\ lastOp.preLen = maxHistorySize
    /\ lastOp.preLen >= 2
    /\ lastOp.preIndex = lastOp.preLen - 1
    /\ lastOp.arg # lastOp.preContent
    /\ Len(history) = maxHistorySize
    /\ history[Len(history)].content = lastOp.arg

\* C9: undo and redo move only the position: the snapshots and their number
\* stay; undo at position 0 and redo at the last index return nothing and
\* change no state; otherwise they return the snapshot one position away.
C9_UndoRedoFrame ==
    [][/\ lastOp'.name \in {"undo", "redo"} => history' = history
       /\ (lastOp'.name = "undo" /\ currentIndex = 0)
          => lastOp'.ret = << >> /\ UNCHANGED hookVars
       /\ (lastOp'.name = "redo" /\ currentIndex = Len(history) - 1)
          => lastOp'.ret = << >> /\ UNCHANGED hookVars
       /\ (lastOp'.name = "undo" /\ currentIndex > 0)
          => currentIndex' = currentIndex - 1 /\ lastOp'.ret = <<history[currentIndex]>>
       /\ (lastOp'.name = "redo" /\ currentIndex < Len(history) - 1)
          => currentIndex' = currentIndex + 1
             /\ lastOp'.ret = <<history[currentIndex + 2]>>]_vars

C9_Witness ==
    /\ lastOp.name = "undo"
    /\ lastOp.ret # << >>
    /\ lastOp.preLen >= 3
    /\ Len(history) = lastOp.preLen
    /\ currentIndex = lastOp.preIndex - 1

\* C10: the position is always an index of the stack, canUndo is true exactly
\* when undo() would return a snapshot and canRedo exactly when redo() would.
C10_PositionAndFlags ==
    /\ 0 <= currentIndex
    /\ currentIndex < Len(history)
    /\ canUndo <=> Undo(Hook).ret # << >>
    /\ canRedo <=> Redo(Hook).ret # << >>

C10_Witness ==
    /\ canUndo
    /\ canRedo
    /\ Len(history) = maxHistorySize
    /\ lastOp.name = "push"

-----------------------------------------------------------------------------
(* Claims about the file store, the tabs and the imports.                  *)

\* C11 as stated: file names are unique in the file store in every reachable
\* state, and so are the tabs' names: no two entries of files and no two
\* entries of tabs share a name, whatever sequence of new documents, imports,
\* image conversions, renames and deletions led there.
C11_UniqueNamesAsStated ==
    ~crashed =>
        /\ \A i, j \in 1..Len(files) : files[i].name = files[j].name => i = j
        /\ \A i, j \in 1..Len(tabs) : tabs[i].fileName = tabs[j].fileName => i = j

\* C12: a rename whose new name already exists in the file store is aborted
\* with no partial mutation: the file list and every file's content, the
\* tabs, activeTab, currentFile and the buffer are what they were before.
C12_RenameCollisionAborts ==
    [][lastOp'.name = "renameCollision"
       => /\ ~crashed'
          /\ UNCHANGED <<files, tabs, activeTab, currentFile, content>>]_vars

\* a rename onto the name of another file, with a document in the buffer
C12_Witness ==
    /\ lastOp.name = "renameCollision"
    /\ Len(files) = 2
    /\ files[1].name # files[2].name
    /\ content # << >>

\* the text has an image link ![...](name)
ImageLinkTo(s, name) ==
    \E i \in 1..Len(s) :
        /\ i + 1 <= Len(s) /\ s[i] = "!" /\ s[i + 1] = "["
        /\ \E c \in (i + 2)..Len(s) :
               /\ \A m \in (i + 2)..(c - 1) : s[m] # NL
               /\ c + 2 + Len(name) <= Len(s)
               /\ SubSeq(s, c, c + 2 + Len(name)) = <<"]", "(">> \o name \o <<")">>

\* the text's cover-asset line, the line after "photos:", is "- name"
CoverLineIs(s, name) ==
    LET lines == Split(s, NL)
        p == PhotosIndex(lines)
    IN p # 0 /\ p < Len(lines) /\ Trim(lines[p + 1]) = <<"-", SP>> \o name

\* the text refers to the file in neither way
RefersTo(s, name) ==
    \/ ImageLinkTo(s, name)
    \/ LET lines == Split(s, NL)
           p == PhotosIndex(lines)
       IN p # 0 /\ p < Len(lines) /\ Includes(lines[p + 1], name)

\* every name a file can have in the model
Names ==
    ImportNames \cup WebPNames \cup RenameTargets \cup {IndexName(k) : k \in 0..MaxFiles}

\* the edit cycles that write new text
ForwardEdits == {"type", "pasteLink", "dropImage", "format", "setCover", "form"}

\* C13 as stated: after a successful rename of old to new the file store has
\* no entry named old, and every markdown document that had an image link to
\* old and the cover-asset line of old has both of them naming new, in the
\* file store, in its tab and, for the document being edited, in the buffer;
\* and no reference to old is back after the next edit cycle.
C13_RenameCascadeAsStated ==
    [][/\ \A old \in FileNames, new \in RenameTargets :
            (/\ lastOp'.name = "renameFile"
             /\ ~crashed'
             /\ FindFile(files, new) = << >>
             /\ \E i \in 1..Len(files) : files[i].name = old /\ files'[i].name = new)
            => LET both(s) == ImageLinkTo(s, old) /\ CoverLineIs(s, old)
                   updated(s) == /\ ImageLinkTo(s, new) /\ CoverLineIs(s, new)
                                 /\ ~RefersTo(s, old)
               IN /\ FindFile(files', old) = << >>
                  /\ \A i \in 1..Len(files) :
                         (files[i].type = "markdown" /\ both(files[i].content))
                         => updated(files'[i].content)
                  /\ \A i \in 1..Len(tabs) :
                         both(tabs[i].content) => updated(tabs'[i].content)
                  /\ (currentFile # << >> /\ both(content)) => updated(content')
       /\ (lastOp.name = "renameFile" /\ lastOp'.name \in ForwardEdits /\ ~crashed')
          => \A old \in Names \ FileNames :
                 (/\ \A i \in 1..Len(files) :
                        files[i].type = "markdown" => ~RefersTo(files[i].content, old)
                  /\ ~RefersTo(content, old))
                 => /\ \A i \in 1..Len(files') :
                           files'[i].type = "markdown"
                           => ~RefersTo(files'[i].content, old)
                    /\ ~RefersTo(content', old)]_vars

\* the text's cover-asset line is blank: "- "
CoverLineBlank(s) ==
    LET lines == Split(s, NL)
        p == PhotosIndex(lines)
    IN p # 0 /\ p < Len(lines) /\ Trim(lines[p + 1]) = <<"-">>

\* C14 as stated: after an image file is deleted the store has no entry of
\* that name, and every markdown document that referred to it, in the file
\* store, in its tab and, for the active document, in the buffer, has each
\* image link to it replaced by the deleted-placeholder and a cover-asset line
\* naming it blanked; and no reference to it is back after the next edit
\* cycle.
C14_DeleteCascadeAsStated ==
    [][/\ \A name \in ImageNames :
            (lastOp'.name = "deleteFile" /\ ~crashed' /\ FindFile(files', name) = << >>)
            => LET rewritten(s, t) ==
                       /\ ~RefersTo(t, name)
                       /\ ImageLinkTo(s, name) => Includes(t, DeletedImageText)
                       /\ CoverLineIs(s, name) => CoverLineBlank(t)
               IN /\ \A i \in 1..Len(files) :
                         (files[i].type = "markdown" /\ RefersTo(files[i].content, name))
                         => /\ FindFile(files', files[i].name) # << >>
                            /\ rewritten(files[i].content,
                                         FindFile(files', files[i].name)[1].content)
                  /\ \A i \in 1..Len(tabs) :
                         RefersTo(tabs[i].content, name)
                         => /\ FindTab(tabs', tabs[i].id) # << >>
                            /\ rewritten(tabs[i].content,
                                         FindTab(tabs', tabs[i].id)[1].content)
                  /\ (currentFile # << >> /\ RefersTo(content, name))
                     => rewritten(content, content')
       /\ (lastOp.name = "deleteFile" /\ lastOp'.name \in ForwardEdits /\ ~crashed')
          => \A name \in Names \ FileNames :
                 (/\ \A i \in 1..Len(files) :
                        files[i].type = "markdown" => ~RefersTo(files[i].content, name)
                  /\ ~RefersTo(content, name))
                 => /\ \A i \in 1..Len(files') :
                           files'[i].type = "markdown"
                           => ~RefersTo(files'[i].content, name)
                    /\ ~RefersTo(content', name)]_vars

\* C15 as stated: in every settled state with an active document the
\* displayed missing-resource list is the reconciler's result for the current
\* buffer text and the current names of the file store, also after a file
\* was added, removed or renamed.
C15_MissingListCurrentAsStated ==
    (~crashed /\ activeTab # << >> /\ currentFile # << >>)
    => missingResources = MissingOf(parseResourceReferences(content), files)

C17_OpenCreatesTabAsStated ==
    [][/\ (lastOp'.name = "selectClosed" /\ ~crashed')
          => /\ FileType(files, activeTab') = "markdown"
             /\ FindTab(tabs, activeTab') = << >>
             /\ FindTab(tabs', activeTab') # << >>
             /\ FindTab(tabs', activeTab')[1].content
                    = FindFile(files, activeTab')[1].content
       /\ (lastOp'.name \in {"switchTab", "reselectTab"} /\ ~crashed')
          => /\ FindTab(tabs, activeTab') # << >>
             /\ tabs' = tabs]_vars


\* the pending files of the dialog and the store entries that hold them
ConversionTurns == {"converted", "conversionFailed", "keptOriginal"}
HoldsAsset(fs, f) ==
    \E i \in 1..Len(fs) :
        fs[i].content \in {ArrayBuffer(f), convertToWebP(f, "blob")[1]}

\* C18: whichever button of the conversion dialog is clicked, when the
\* handler finishes the dialog is closed with no pending files, and for each
\* file that was pending the store has an entry holding its converted or its
\* original content: none is left out, none is replaced by another pending
\* file
C18_ConversionKeepsEveryAssetAsStated ==
    [][(lastOp'.name \in ConversionTurns /\ awaiting'.kind = "none") =>
          /\ imageConversionDialog' = DialogClosed
          /\ \A i \in 1..Len(imageConversionDialog.pendingFiles) :
                HoldsAsset(files', imageConversionDialog.pendingFiles[i])]_vars


\* C19: when a conversion fails (the encoder gives no blob, the image does
\* not load, there is no drawing context) the file is still added under its
\* original name with its original bytes, nothing stops, and the handler
\* goes on with the pending files that remain
C19_FailedConversionKeepsOriginal ==
    [][lastOp'.name = "conversionFailed" =>
          /\ ~crashed'
          /\ \E i \in 1..Len(files') :
                files'[i] = WorkspaceFile(awaiting.queue[1].name, "image",
                                          ArrayBuffer(awaiting.queue[1]))
          /\ IF Len(awaiting.queue) = 1
             THEN awaiting' = NotAwaiting /\ imageConversionDialog' = DialogClosed
             ELSE awaiting' = [awaiting EXCEPT !.queue = Tail(@)]]_vars

\* the first of two pending images failed to convert and was kept as it
\* was, the second was converted after it
C19_Witness ==
    /\ lastOp.name = "converted"
    /\ awaiting = NotAwaiting
    /\ ~crashed
    /\ files = <<WorkspaceFile(<<"p", ".", "png">>, "image",
                               <<"bytes", "p", ".", "png">>),
                 WorkspaceFile(<<"p", ".", "webp">>, "image",
                               <<"webp", "p", ".", "jpg">>)>>


\* the names a turn of a conversion handler may write under
WrittenNames ==
    IF awaiting.kind \in {"confirm", "cancel"}
    THEN {awaiting.queue[1].name, generateWebPFileName(awaiting.queue[1].name)}
    ELSE {}

\* C20: when a suspended import or conversion completes, its update is
\* applied on top of the store, the tabs and the buffer as last committed:
\* every tab and every stored file that the completion does not itself write
\* is after it as it was before it, whatever was committed while the
\* operation was suspended
C20_CompletionKeepsCommittedAsStated ==
    [][lastOp'.name \in {"readEnd"} \cup ConversionTurns =>
          /\ \A i \in 1..Len(tabs) : i <= Len(tabs') /\ tabs'[i] = tabs[i]
          /\ \A i \in 1..Len(files) :
                files[i].name \notin WrittenNames =>
                    i <= Len(files') /\ files'[i] = files[i]]_vars


-----------------------------------------------------------------------------
(* Claims about new documents, formatting, the reference parser, the       *)
(* front-matter form, imports, paste, the caret and the tab bar.           *)

\* the name the new-document action is to use in a store fs: index.md when
\* unused, otherwise index-k.md for the smallest k >= 1 that is unused
FreeIndexNames(fs) ==
    LET used(k) == \E i \in 1..Len(fs) : fs[i].name = IndexName(k)
    IN IF ~used(0) THEN {IndexName(0)}
       ELSE {IndexName(k) : k \in {j \in 1..(Len(fs) + 1) :
                                      ~used(j) /\ \A m \in 1..(j - 1) : used(m)}}

C22_FormatIsUndoableAsStated ==
    [][(lastOp'.name = "format" /\ ~crashed' /\ currentFile # << >>) =>
          /\ Len(history') = currentIndex + 2
          /\ currentIndex' = currentIndex + 1
          /\ history'[Len(history')].content = content'
          /\ Settle(Now', handleUndo(Now')).content = content]_vars


\* the targets a document names, read off its lines: the target of a line
\* that is an inline image, and the list item on the line after "photos:"
InlineTargets(s) ==
    LET lines == Split(s, NL)
    IN {SubSeq(lines[i], 6, Len(lines[i]) - 1) :
           i \in {j \in 1..Len(lines) :
                     /\ Len(lines[j]) >= 7
                     /\ SubSeq(lines[j], 1, 2) = <<"!", "[">>
                     /\ SubSeq(lines[j], 4, 5) = <<"]", "(">>
                     /\ lines[j][Len(lines[j])] = ")"}}
CoverTargets(s) ==
    LET lines == Split(s, NL)
    IN {SubSeq(lines[i + 1], 3, Len(lines[i + 1])) :
           i \in {j \in 1..(Len(lines) - 1) :
                     /\ lines[j] = <<"photos", ":">>
                     /\ Len(lines[j + 1]) >= 3
                     /\ SubSeq(lines[j + 1], 1, 2) = <<"-", SP>>}}
NetworkTarget(t) == t # << >> /\ t[1] \in {"http", "https", "ftp"}

\* C23: the reference set extracted from a document never contains a
\* target that starts with a network-URI scheme (http, https, ftp), from an
\* inline image or from the cover-asset line, and contains every local
\* target of either class
C23_OnlyLocalReferencesAsStated ==
    LET references == parseResourceReferences(content)
    IN /\ \A i \in 1..Len(references) : ~NetworkTarget(references[i])
       /\ \A t \in InlineTargets(content) \cup CoverTargets(content) :
             ~NetworkTarget(t) => \E i \in 1..Len(references) : references[i] = t


\* C24: an empty cover-asset placeholder contributes no reference: the
\* default template, whose photos: key is followed by a bare "- " item and
\* then by another key, yields no reference, so a freshly created document
\* has an empty missing-resource list
C24_FreshDocumentNothingMissingAsStated ==
    (lastOp.name = "createNewFile" /\ ~crashed) =>
        /\ parseResourceReferences(content) = << >>
        /\ missingResources = << >>


\* the front matter as the text has it: the lines between the "---" fences,
\* a list key's items being the "- item" lines that follow it, a scalar
\* key's value the rest of its line
BlockLines(s) ==
    IF FrontMatterEnd(s) = -1 THEN << >>
    ELSE Split(SubSeq(s, 5, FrontMatterEnd(s)), NL)
TextItems(lines, key) ==
    LET at == {i \in 1..Len(lines) : lines[i] = <<key, ":">>}
        k == CHOOSE i \in at : \A j \in at : j <= i
        item(j) == Len(lines[j]) >= 1 /\ lines[j][1] = "-"
        run == {j \in (k + 1)..Len(lines) : \A m \in (k + 1)..j : item(m)}
        rows == SelectSeq(SubSeq(lines, k + 1, k + Cardinality(run)),
                          LAMBDA row : Trim(Tail(row)) # << >>)
    IN IF at = {} THEN << >>
       ELSE [i \in 1..Len(rows) |-> Trim(Tail(rows[i]))]
TextScalar(lines, key) ==
    LET at == {i \in 1..Len(lines) :
                  Len(lines[i]) >= 2 /\ lines[i][1] = key /\ lines[i][2] = ":"}
    IN IF at = {} THEN << >>
       ELSE Trim(SubSeq(lines[CHOOSE i \in at : \A j \in at : j <= i], 3,
                        Len(lines[CHOOSE i \in at : \A j \in at : j <= i])))
TextFields(s) ==
    [categories |-> TextItems(BlockLines(s), "categories"),
     photos |-> TextItems(BlockLines(s), "photos"),
     tags |-> TextItems(BlockLines(s), "tags"),
     title |-> TextScalar(BlockLines(s), "title")]

\* C25: the text is the source of truth for the front matter: a form change
\* rewrites the block from the values that the active document's text has
\* plus the one changed field, so that after it at most one field of the
\* block differs from what the text had
C25_FormKeepsTextValuesAsStated ==
    [][(lastOp'.name = "form" /\ ~crashed' /\ FrontMatterEnd(content) # -1) =>
          Cardinality({field \in {"categories", "photos", "tags", "title"} :
                          TextFields(content')[field] # TextFields(content)[field]})
              <= 1]_vars


\* C26: reference extraction and the rename, delete and set-cover cascades
\* never fail on any document text: with no photos: key, or with photos: as
\* the last line, the operation completes for all files
C26_CascadesNeverFailAsStated ==
    [][lastOp'.name \in {"renameFile", "deleteFile", "setCover", "setCoverNoPhotos"}
          => ~crashed']_vars


\* C27: importing a file that is neither an image nor named *.md adds it to
\* the file store as an opaque binary of kind "other": no imported file is
\* silently discarded
C27_OtherFilesAreStoredAsStated ==
    [][lastOp'.name = "importOther" =>
          /\ Len(files') = Len(files) + 1
          /\ files'[Len(files')].type = "other"
          /\ \E file \in OtherFiles : files'[Len(files')].name = file.name]_vars


\* the markdown links the claim gives for the texts that can be pasted: the
\* generic label, the title, the generic label with the code, title and code
ExpectedLinks ==
    {<<"[", "link", "]", "(", "https", ":", "//", "u", ")">>,
     <<"[", "T", "]", "(", "https", ":", "//", "u", ")">>,
     <<"[", "link", SP, "|", SP, "extractcode", FwColon, "abcd",
       "]", "(", "https", ":", "//", "u", ")">>,
     <<"[", "T", SP, "|", SP, "extractcode", FwColon, "abcd",
       "]", "(", "https", ":", "//", "u", ")">>}

\* a confirmed paste put link in place of the selection sel, the active tab
\* mirrors the new content and the current snapshot is that content
PastedAs(link, sel) ==
    /\ content' = Splice(content, sel[1], sel[2], link)
    /\ FindTab(tabs', activeTab') # << >>
    /\ FindTab(tabs', activeTab')[1].content = content'
    /\ activeTab' = activeTab
    /\ At(history', currentIndex')[1].content = content'

\* one snapshot was pushed after the current one, with the caret right
\* after the link
PushedOne(link, sel) ==
    /\ currentIndex' = currentIndex + 1
    /\ Len(history') = currentIndex + 2
    /\ history'[Len(history')].cursorPosition = sel[1] + Len(link)

C29_CaretRestoredAsStated ==
    [][(lastOp'.name \in {"undo", "redo"} /\ lastOp'.ret # << >> /\ ~crashed') =>
          /\ content' = lastOp'.ret[1].content
          /\ Carets(content') = {lastOp'.ret[1].cursorPosition}]_vars


\* C30: closing a tab that is not the active one leaves the active tab,
\* currentFile, the buffer and the stored content of the active document as
\* they were, whatever edit last changed the active document
C30_CloseOtherTabFrameAsStated ==
    [][(lastOp'.name = "closeTab" /\ ~crashed') =>
          /\ activeTab' = activeTab
          /\ currentFile' = currentFile
          /\ content' = content
          /\ FindFile(files', currentFile) = FindFile(files, currentFile)]_vars

-----------------------------------------------------------------------------
(* Claims about tab round trips, overlapping imports and dialog clicks,    *)
(* the buffer without a tab, plain paste, the cascades' frame and the      *)
(* encoder quality.                                                        *)

\* C31: switching from document A to document B and back to A shows A with
\* exactly the content it had when it was left, and A's stored content is
\* what it was before the round trip, whichever handler changed A last
C31_TabRoundTripAsStated ==
    [][(lastOp'.name = "switchTab" /\ ~crashed' /\ activeTab # << >>) =>
          \E back \in {Settle(Now', switchTab(Now', activeTab))} :
              /\ back.activeTab = activeTab
              /\ back.content = content
              /\ FindFile(back.files, activeTab) = FindFile(files, activeTab)]_vars

\* the images a suspended handler of the dialog still has to add
InFlight(handler) ==
    IF handler.kind \in {"confirm", "cancel"}
    THEN {handler.queue[i] : i \in 1..Len(handler.queue)}
    ELSE {}

\* the images that can still reach the store: a handler of the dialog adds
\* the pending files of the dialog it was started on and nothing else
Owed ==
    {imageConversionDialog.pendingFiles[i] :
        i \in 1..Len(imageConversionDialog.pendingFiles)}
    \cup InFlight(awaiting)
    \cup UNION {InFlight(overlapped[i]) : i \in 1..Len(overlapped)}

\* C32: when an import with images that are not WebP starts while the
\* dialog of an earlier import is still open, every image that was pending
\* from the earlier import is pending afterwards too, or in the hands of a
\* handler that is adding it: none is dropped, so each is still added
C32_OverlappingImportKeepsPendingAsStated ==
    [][lastOp'.name = "importImagesAgain" => Owed \subseteq Owed']_vars

\* the store entries that hold image f, converted or as it was uploaded
EntriesOf(fs, f) ==
    {i \in 1..Len(fs) : fs[i].content \in {ArrayBuffer(f), convertToWebP(f, "blob")[1]}}

\* the turns of a handler of the dialog that was started beside another
TurnsAgain == {"convertedAgain", "conversionFailedAgain", "keptOriginalAgain"}

\* C33: each pending image of a conversion batch is added to the store
\* exactly once: when a button of the dialog is clicked again before the
\* first handler has closed the dialog, a handler that adds a pending image
\* leaves the store with one entry for that image, not two
C33_PendingAddedOnceAsStated ==
    [][/\ (lastOp'.name \in ConversionTurns /\ ~crashed') =>
              Cardinality(EntriesOf(files', awaiting.queue[1])) = 1
       /\ (lastOp'.name \in TurnsAgain /\ ~crashed') =>
              Cardinality(EntriesOf(files', overlapped[1].queue[1])) = 1]_vars

\* C34: whenever no tab is open (activeTab and currentFile are empty) the
\* editor buffer is empty: typing, undo, redo, paste and the formatting
\* commands cannot put text into the buffer that is written through to no
\* entry of the file store
C34_NoTabNoTextAsStated ==
    (~crashed /\ activeTab = << >> /\ currentFile = << >>) => content = << >>

\* C35: a paste is never swallowed: when the pasted text matches a link
\* pattern and the user declines the conversion, the buffer afterwards is
\* the buffer with the pasted text itself put in place of the selection,
\* as it is when the text matches no pattern
C35_DeclinedPasteIsInsertedAsStated ==
    [][(lastOp'.name = "pasteDeclined" /\ ~crashed') =>
          \E text \in LinkClipboard, sel \in Selections(content) :
              content' = Splice(content, sel[1], sel[2], text)]_vars

\* the file a cascade is about: the name that is in the store before the
\* handler and not after it
Affected == FileNames \ {files'[i].name : i \in 1..Len(files')}

\* C36: the rename and delete cascades rewrite only references whose target
\* is exactly the affected file name: a document with no image link to that
\* name and whose cover-asset line is not that name (it may name a file whose
\* name contains it) is in the store after the cascade as it was before
C36_CascadeRewritesOnlyExactAsStated ==
    [][(lastOp'.name \in {"deleteFile", "renameFile"} /\ ~crashed') =>
          \A name \in Affected :
              \A i \in 1..Len(files) :
                  (/\ files[i].type = "markdown"
                   /\ files[i].name # name
                   /\ FileType(files, name) = "image"
                   /\ ~ImageLinkTo(files[i].content, name)
                   /\ ~CoverLineIs(files[i].content, name))
                  => FindFile(files', files[i].name) = <<files[i]>>]_vars

\* C37: convertToWebP encodes with a quality chosen from the size of the
\* original file, 0.75 above 1 MB (1048576 bytes), 0.8 above 500 KB (512000
\* bytes) and 0.85 otherwise, and the quality it reports is the one it
\* encoded with
C37_QualityFollowsSizeAsStated ==
    (lastOp.name = "convertToWebP" /\ lastOp.ret # << >>) =>
        /\ lastOp.ret[1].encodedAt =
               (IF lastOp.arg[1] > 1048576 THEN 75
                ELSE IF lastOp.arg[1] > 512000 THEN 80
                ELSE 85)
        /\ lastOp.ret[1].quality = lastOp.ret[1].encodedAt

=============================================================================
